---- MODULE Spec2Model ----
(***************************************************************************)
(* NexAllot: roster ingestion (header resolution, the two readers, the     *)
(* per-file merge loop) and the seat allocator of seatingArrangementFlow.  *)
(*                                                                         *)
(* A header is a sequence of one-character strings, so that normalisation  *)
(* and substring matching are computed character by character.  A cell of  *)
(* a data row and a field of a Student are opaque strings: the code only   *)
(* tests them for emptiness and equality, and orders hall ticket numbers.  *)
(***************************************************************************)
EXTENDS Integers, Sequences, FiniteSets, Bags, TLC

VARIABLES
    files,          \* input.studentListDataUris, each decoded to what the readers see
    layout,         \* input.layoutConfig.blocks
    pc,             \* position inside seatingArrangementFlow
    fileIdx,        \* index of the file the merge loop is at
    resolved,       \* nameHeader, hallTicketHeader, branchHeader, contactHeader of the last reader run
    allStudents,    \* the merged roster
    totalCapacity,  \* sum of benches * studentsPerBench
    studentPool,    \* the shuffled pool the allocator consumes
    seatingPlan,    \* the assignments made so far
    studentIndex,   \* the global assigned-count cursor
    blockIdx,       \* position of the block loop
    floorIdx,       \* position of the floor loop
    roomIdx,        \* position of the room loop
    benchCounter,   \* next bench index in the current room
    roomCapacity,   \* min(benches,45) * studentsPerBench of the current room
    i,              \* the slot counter of the current room's loop
    result,         \* the value the flow returns
    hdrA,           \* first header string handed to normalizeHeader
    hdrB,           \* second header string handed to normalizeHeader
    normA,          \* normalizeHeader(hdrA)
    normB,          \* normalizeHeader(hdrB)
    normAA,         \* normalizeHeader(normalizeHeader(hdrA))
    planStore,      \* the file .data/seating-plan.json
    returned,       \* the value createSeatingPlanAction returned
    fetched,        \* the value getSeatingDataAction returned
    outcome,        \* what a reader called on files[1] alone returned or threw
    matched,        \* the keyword list handed to findHeaderMatch and what it returned
    authFile,       \* .data/faculty-auth.json
    calls,          \* the invocations of the faculty actions, each with its own authData
    verdict         \* the input of a validateFacultyAction call and what it returned

vars == << files, layout, pc, fileIdx, resolved, allStudents, totalCapacity,
           studentPool, seatingPlan, studentIndex, blockIdx, floorIdx, roomIdx,
           benchCounter, roomCapacity, i, result, hdrA, hdrB, normA, normB, normAA,
           planStore, returned, fetched, outcome, matched, authFile, calls, verdict >>

flowVars == << files, layout, fileIdx, resolved, allStudents, totalCapacity,
               studentPool, seatingPlan, studentIndex, blockIdx, floorIdx, roomIdx,
               benchCounter, roomCapacity, i, result >>

hdrVars == << hdrA, hdrB, normA, normB, normAA >>

storeVars == << planStore, returned, fetched >>

readerVars == << outcome, matched >>

facultyVars == << authFile, calls, verdict >>

(***************************************************************************)
(* Characters                                                              *)
(***************************************************************************)
UpperChars ==
    << "A","B","C","D","E","F","G","H","I","J","K","L","M",
       "N","O","P","Q","R","S","T","U","V","W","X","Y","Z" >>

LowerChars ==
    << "a","b","c","d","e","f","g","h","i","j","k","l","m",
       "n","o","p","q","r","s","t","u","v","w","x","y","z" >>

DigitChars == << "0","1","2","3","4","5","6","7","8","9" >>

WhitespaceChars == { " ", "\t" }

Range(s) == { s[k] : k \in DOMAIN s }

IndexOf(s, x) ==
    IF \E k \in DOMAIN s : s[k] = x
    THEN CHOOSE k \in DOMAIN s : s[k] = x /\ \A m \in 1..(k-1) : s[m] # x
    ELSE 0

\* String.prototype.toLowerCase on one character
ToLowerChar(c) ==
    IF c \in Range(UpperChars) THEN LowerChars[IndexOf(UpperChars, c)] ELSE c

ToLowerCase(s) == [k \in DOMAIN s |-> ToLowerChar(s[k])]

IsWhitespace(c) == c \in WhitespaceChars

IsLowerAlnum(c) == c \in Range(LowerChars) \cup Range(DigitChars)

\* replace(/\s+/g, "")
StripWhitespace(s) == SelectSeq(s, LAMBDA c : ~IsWhitespace(c))

\* replace(/[^a-z0-9]/g, '')
StripNonAlnum(s) == SelectSeq(s, IsLowerAlnum)

RECURSIVE TrimLeft(_)
TrimLeft(s) ==
    IF s # << >> /\ IsWhitespace(Head(s)) THEN TrimLeft(Tail(s)) ELSE s

RECURSIVE TrimRight(_)
TrimRight(s) ==
    IF s # << >> /\ IsWhitespace(s[Len(s)])
    THEN TrimRight(SubSeq(s, 1, Len(s) - 1))
    ELSE s

\* String.prototype.trim
Trim(s) == TrimRight(TrimLeft(s))

(***************************************************************************)
(* Header Resolver                                                         *)
(***************************************************************************)
normalizeHeaderKeepCase(header) ==
    Trim(StripNonAlnum(StripWhitespace(header)))

normalizeHeaderKeepPunctuation(header) ==
    Trim(StripWhitespace(ToLowerCase(header)))

normalizeHeader(header) ==
    Trim(StripNonAlnum(StripWhitespace(ToLowerCase(header))))

\* String.prototype.includes
Includes(hay, needle) ==
    \E k \in 0..(Len(hay) - Len(needle)) : SubSeq(hay, k + 1, k + Len(needle)) = needle

\* what findHeaderMatch returns when nothing matches; like undefined it is falsy,
\* and no matched header is the empty string
Undefined == << >>

\* Array.prototype.findIndex over headers.map(normalizeHeader), 0 for -1
FindIndexIncluding(headers, normKeyword) ==
    IF \E k \in DOMAIN headers : Includes(normalizeHeader(headers[k]), normKeyword)
    THEN CHOOSE k \in DOMAIN headers :
            /\ Includes(normalizeHeader(headers[k]), normKeyword)
            /\ \A m \in 1..(k-1) : ~Includes(normalizeHeader(headers[m]), normKeyword)
    ELSE 0

RECURSIVE FindFromKeyword(_, _, _)
FindFromKeyword(headers, keywords, k) ==
    IF k > Len(keywords) THEN Undefined
    ELSE LET index == FindIndexIncluding(headers, normalizeHeader(keywords[k]))
         IN  IF index # 0 THEN headers[index]
             ELSE FindFromKeyword(headers, keywords, k + 1)

\* a resolver that lets the position of a header decide before the priority of a keyword
findHeaderMatchByPosition(headers, keywords) ==
    IF \E j \in DOMAIN headers : \E k \in DOMAIN keywords :
            Includes(normalizeHeader(headers[j]), normalizeHeader(keywords[k]))
    THEN headers[CHOOSE j \in DOMAIN headers :
            /\ \E k \in DOMAIN keywords :
                    Includes(normalizeHeader(headers[j]), normalizeHeader(keywords[k]))
            /\ \A m \in 1..(j-1) : \A k \in DOMAIN keywords :
                    ~Includes(normalizeHeader(headers[m]), normalizeHeader(keywords[k]))]
    ELSE Undefined

findHeaderMatch(headers, keywords) == FindFromKeyword(headers, keywords, 1)

NameKeywords ==
    << <<"n","a","m","e">>,
       <<"s","t","u","d","e","n","t","n","a","m","e">>,
       <<"f","u","l","l","n","a","m","e">>,
       <<"n","a","m","e","o","f","s","t","u","d","e","n","t">> >>

HallTicketKeywords ==
    << <<"h","a","l","l","t","i","c","k","e","t","n","u","m","b","e","r">>,
       <<"h","a","l","l","t","i","c","k","e","t">>,
       <<"t","i","c","k","e","t","n","u","m","b","e","r">>,
       <<"h","t","n","o">>,
       <<"r","o","l","l","n","o">>,
       <<"r","o","l","l"," ","n","u","m","b","e","r">> >>

BranchKeywords ==
    << <<"b","r","a","n","c","h">>,
       <<"d","e","p","a","r","t","m","e","n","t">>,
       <<"s","t","r","e","a","m">> >>

ContactKeywords ==
    << <<"c","o","n","t","a","c","t","n","u","m","b","e","r">>,
       <<"p","h","o","n","e">>,
       <<"p","h","o","n","e","n","u","m","b","e","r">>,
       <<"m","o","b","i","l","e">>,
       <<"c","o","n","t","a","c","t"," ","n","o">> >>

\* the four findHeaderMatch calls both readers make on a header row
ResolveHeaders(headers) ==
    [ nameHeader       |-> findHeaderMatch(headers, NameKeywords),
      hallTicketHeader |-> findHeaderMatch(headers, HallTicketKeywords),
      branchHeader     |-> findHeaderMatch(headers, BranchKeywords),
      contactHeader    |-> findHeaderMatch(headers, ContactKeywords) ]

(***************************************************************************)
(* Input files.  A file is what the two readers can see of it:             *)
(*   tag      the media type the data URI declares                         *)
(*   kind     what the bytes are: "pdf" (pdf-parse extracts text), "csv"   *)
(*            (delimited text) or "junk"                                   *)
(*   headers  the cells of the header row, before trimming                 *)
(*   rows     the data rows, each a sequence of cells                      *)
(*   parseErrors  Papa.parse reports row-level errors for the text         *)
(* The header rows used here have pairwise distinct cells, so a row object *)
(* keyed by header and a row indexed by column agree.                      *)
(***************************************************************************)
ErrCsvParse    == "Failed to parse CSV file. Please check the format."
ErrCsvName     == "Could not find a 'Name' column. (CSV)"
ErrCsvTicket   == "Could not find a 'Hall Ticket Number' column. (CSV)"
ErrCsvBranch   == "Could not find a 'Branch' column. (CSV)"
ErrCsvContact  == "Could not find a 'Contact Number' column. (CSV)"
ErrPdfLibrary  == "pdf-parse could not read the document."
ErrPdfTable    == "PDF content is not in a valid table format."
ErrPdfName     == "Could not find a 'Name' column in the PDF."
ErrPdfTicket   == "Could not find a 'Hall Ticket Number' column in the PDF."
ErrPdfBranch   == "Could not find a 'Branch' column in the PDF."
ErrPdfContact  == "Could not find a 'Contact Number' column in the PDF."
ErrPdfEmpty    == "Could not parse any students from the PDF. Please check the file's text format."
ErrUnsupported == "Unsupported file type. Please upload a valid CSV or PDF file."
ErrNoStudents  == "Could not extract any student data from the uploaded files. Please ensure files are correctly formatted and not empty."

NoHeaders ==
    [ nameHeader |-> Undefined, hallTicketHeader |-> Undefined,
      branchHeader |-> Undefined, contactHeader |-> Undefined ]

Rejected(msg, res) == [ ok |-> FALSE, error |-> msg, students |-> << >>, resolved |-> res ]

Resolved(students, res) == [ ok |-> TRUE, error |-> "", students |-> students, resolved |-> res ]

\* row[header] || '' for a row object keyed by header, parts[index] || '' for a split line
CellAt(row, index) == IF index \in DOMAIN row THEN row[index] ELSE ""

ProjectRow(row, headers, res) ==
    [ name             |-> CellAt(row, IndexOf(headers, res.nameHeader)),
      hallTicketNumber |-> CellAt(row, IndexOf(headers, res.hallTicketHeader)),
      branch           |-> CellAt(row, IndexOf(headers, res.branchHeader)),
      contactNumber    |-> CellAt(row, IndexOf(headers, res.contactHeader)) ]

\* a filter that asks for a branch as well
KeepStudentWithBranch(s) == s.name # "" /\ s.hallTicketNumber # "" /\ s.branch # ""

\* .filter(s => s.name && s.hallTicketNumber)
KeepStudent(s) == s.name # "" /\ s.hallTicketNumber # ""

TrimAll(headers) == [k \in DOMAIN headers |-> Trim(headers[k])]

\* the outcomes of parseStudentsFromCSV on a file: a set, because what Papa.parse
\* makes of bytes that are not delimited text is the library's business
parseStudentsFromCSV(f) ==
    IF f.kind # "csv" THEN { Rejected(ErrCsvParse, NoHeaders), Rejected(ErrCsvName, NoHeaders) }
    ELSE IF f.parseErrors THEN { Rejected(ErrCsvParse, NoHeaders) }
    ELSE LET headers  == TrimAll(f.headers)
             res      == ResolveHeaders(headers)
             students == SelectSeq([k \in DOMAIN f.rows |-> ProjectRow(f.rows[k], headers, res)],
                                   KeepStudent)
         IN  IF res.nameHeader = Undefined THEN { Rejected(ErrCsvName, res) }
             ELSE IF res.hallTicketHeader = Undefined THEN { Rejected(ErrCsvTicket, res) }
             ELSE IF res.branchHeader = Undefined THEN { Rejected(ErrCsvBranch, res) }
             ELSE IF res.contactHeader = Undefined THEN { Rejected(ErrCsvContact, res) }
             ELSE { Resolved(students, res) }

\* line.trim().split(/\s{2,}/) of a table line whose cells are row: a blank cell
\* is one more run of whitespace, so the parts are the cells that are not blank
PartsOf(row) == SelectSeq(row, LAMBDA cell : cell # "")

\* .filter(line => line.trim() !== '') over the data lines
NonBlankLines(rows) == SelectSeq(rows, LAMBDA row : PartsOf(row) # << >>)

\* a Tabular-Text reader that looks for the hall-ticket column before the name column
parseStudentsFromPDFTicketFirst(f) ==
    IF f.kind # "pdf" THEN { Rejected(ErrPdfLibrary, NoHeaders) }
    ELSE IF (IF f.headers = << >> THEN 0 ELSE 1) + Len(NonBlankLines(f.rows)) < 2
         THEN { Rejected(ErrPdfTable, NoHeaders) }
    ELSE LET res == ResolveHeaders(TrimAll(f.headers))
         IN  IF res.hallTicketHeader = Undefined THEN { Rejected(ErrPdfTicket, res) }
             ELSE IF res.nameHeader = Undefined THEN { Rejected(ErrPdfName, res) }
             ELSE IF res.branchHeader = Undefined THEN { Rejected(ErrPdfBranch, res) }
             ELSE IF res.contactHeader = Undefined THEN { Rejected(ErrPdfContact, res) }
             ELSE { Rejected(ErrPdfEmpty, res) }

\* the outcome of parseStudentsFromPDF on a file
parseStudentsFromPDF(f) ==
    IF f.kind # "pdf" THEN { Rejected(ErrPdfLibrary, NoHeaders) }
    ELSE IF (IF f.headers = << >> THEN 0 ELSE 1) + Len(NonBlankLines(f.rows)) < 2
         THEN { Rejected(ErrPdfTable, NoHeaders) }
    ELSE LET headers  == TrimAll(f.headers)
             res      == ResolveHeaders(headers)
             lines    == NonBlankLines(f.rows)
             split    == [k \in DOMAIN lines |-> PartsOf(lines[k])]
             wide     == SelectSeq(split, LAMBDA parts : Len(parts) >= Len(headers))
             students == SelectSeq([k \in DOMAIN wide |-> ProjectRow(wide[k], headers, res)],
                                   KeepStudent)
         IN  IF res.nameHeader = Undefined THEN { Rejected(ErrPdfName, res) }
             ELSE IF res.hallTicketHeader = Undefined THEN { Rejected(ErrPdfTicket, res) }
             ELSE IF res.branchHeader = Undefined THEN { Rejected(ErrPdfBranch, res) }
             ELSE IF res.contactHeader = Undefined THEN { Rejected(ErrPdfContact, res) }
             ELSE IF students = << >> THEN { Rejected(ErrPdfEmpty, res) }
             ELSE { Resolved(students, res) }

\* the body of the merge loop for one file: reader selection by type tag
ReadOutcomesInferAlways(f) ==
    UNION { IF p.ok THEN { p }
            ELSE { IF c.ok THEN c ELSE Rejected(ErrUnsupported, c.resolved)
                   : c \in parseStudentsFromCSV(f) }
            : p \in parseStudentsFromPDF(f) }

ReadOutcomes(f) ==
    IF f.tag = "pdf" THEN parseStudentsFromPDF(f)
    ELSE IF f.tag \in { "csv", "xls" } THEN parseStudentsFromCSV(f)
    ELSE UNION { IF p.ok THEN { p }
                 ELSE { IF c.ok THEN c ELSE Rejected(ErrUnsupported, c.resolved)
                        : c \in parseStudentsFromCSV(f) }
                 : p \in parseStudentsFromPDF(f) }

(***************************************************************************)
(* Branch partition and shuffle                                            *)
(***************************************************************************)
RemoveAt(s, k) == SubSeq(s, 1, k - 1) \o SubSeq(s, k + 1, Len(s))

\* the number of times x occurs in s
Occurrences(s, x) == Cardinality({ k \in DOMAIN s : s[k] = x })

\* shuffleArray: Fisher-Yates with Math.random can leave the array in any order;
\* the set of the orders it can produce, that is the rearrangements of the array
\* (an array of equal elements has one)
shuffleArray(array) ==
    { q \in [DOMAIN array -> Range(array)] : \A x \in Range(array) : Occurrences(q, x) = Occurrences(array, x) }

\* Object.keys(studentsByBranch): the distinct branches in order of first appearance
BranchKeys(students) ==
    LET first == { k \in DOMAIN students : \A m \in 1..(k-1) : students[m].branch # students[k].branch }
    IN  [ j \in 1..Cardinality(first) |->
            students[CHOOSE k \in first : Cardinality({ m \in first : m <= k }) = j].branch ]

\* studentsByBranch[branch]
BranchGroup(students, branch) == SelectSeq(students, LAMBDA st : st.branch = branch)

\* branchNames.flatMap(branch => studentsByBranch[branch]), over every outcome of
\* the shuffles of the groups
RECURSIVE PoolsInOrder(_, _)
PoolsInOrder(students, branchNames) ==
    IF branchNames = << >> THEN { << >> }
    ELSE { g \o rest : g \in shuffleArray(BranchGroup(students, Head(branchNames))),
                       rest \in PoolsInOrder(students, Tail(branchNames)) }

ShuffledPoolsUngrouped(students) == shuffleArray(students)

ShuffledPools(students) ==
    UNION { PoolsInOrder(students, branchNames) : branchNames \in shuffleArray(BranchKeys(students)) }

(***************************************************************************)
(* Layout                                                                  *)
(***************************************************************************)
MaxBenchesPerRoom == 45

Min(a, b) == IF a <= b THEN a ELSE b

\* the forEach nest of lines 180-187: totalCapacity += r.benches * r.studentsPerBench
RECURSIVE SumRooms(_)
SumRooms(rooms) ==
    IF rooms = << >> THEN 0
    ELSE Head(rooms).benches * Head(rooms).studentsPerBench + SumRooms(Tail(rooms))

RECURSIVE SumFloors(_)
SumFloors(floors) ==
    IF floors = << >> THEN 0 ELSE SumRooms(Head(floors).rooms) + SumFloors(Tail(floors))

RECURSIVE SumBlocks(_)
SumBlocks(blocks) ==
    IF blocks = << >> THEN 0 ELSE SumFloors(Head(blocks).floors) + SumBlocks(Tail(blocks))

RECURSIVE BenchesOfRooms(_)
BenchesOfRooms(rooms) ==
    IF rooms = << >> THEN 0 ELSE Head(rooms).benches + BenchesOfRooms(Tail(rooms))

RECURSIVE BenchesOfFloors(_)
BenchesOfFloors(floors) ==
    IF floors = << >> THEN 0 ELSE BenchesOfRooms(Head(floors).rooms) + BenchesOfFloors(Tail(floors))

RECURSIVE BenchesOfBlocks(_)
BenchesOfBlocks(blocks) ==
    IF blocks = << >> THEN 0 ELSE BenchesOfFloors(Head(blocks).floors) + BenchesOfBlocks(Tail(blocks))

TotalCapacityInBenches(blocks) == BenchesOfBlocks(blocks)

TotalCapacity(blocks) == SumBlocks(blocks)

RoomCapacityUncapped(room) == room.benches * room.studentsPerBench

RoomCapacity(room) == Min(room.benches, MaxBenchesPerRoom) * room.studentsPerBench

Floors(b) == layout.blocks[b].floors

Rooms(b, f) == Floors(b)[f].rooms

CurrentRoom == Rooms(blockIdx, floorIdx)[roomIdx]

End == << 0, 0, 0 >>

\* where the loops stand after the floor's room loop ends
AfterFloor(b, f) ==
    IF f < Len(Floors(b)) THEN << b, f + 1, 1 >>
    ELSE IF b < Len(layout.blocks) THEN << b + 1, 1, 1 >>
    ELSE End

\* where the loops stand after one room's body
AfterRoomSkipping(b, f, r) == AfterFloor(b, f)

AfterRoom(b, f, r) ==
    IF r < Len(Rooms(b, f)) THEN << b, f, r + 1 >> ELSE AfterFloor(b, f)

MoveTo(pos) ==
    /\ blockIdx' = pos[1]
    /\ floorIdx' = pos[2]
    /\ roomIdx' = pos[3]
    /\ pc' = IF pos = End THEN "sort" ELSE "room"

Assignment(student, benchNumber) ==
    [ name             |-> student.name,
      hallTicketNumber |-> student.hallTicketNumber,
      branch           |-> student.branch,
      contactNumber    |-> student.contactNumber,
      block            |-> layout.blocks[blockIdx].name,
      floor            |-> ToString(Floors(blockIdx)[floorIdx].number),
      classroom        |-> CurrentRoom.number,
      benchNumber      |-> benchNumber ]

\* line 219: the loop condition and the break that opens the loop body
Continues == i < roomCapacity /\ studentIndex < totalCapacity /\ studentPool # << >>

\* studentPool.findIndex(s => s.branch !== student1.branch), 0 for -1
DifferentBranchIndexNever(pool) == 0

DifferentBranchIndex(pool) ==
    IF \E k \in DOMAIN pool : pool[k].branch # pool[1].branch
    THEN CHOOSE k \in DOMAIN pool :
            /\ pool[k].branch # pool[1].branch
            /\ \A m \in 1..(k-1) : pool[m].branch = pool[1].branch
    ELSE 0

\* index of student2 in the pool: the cross-branch candidate, else the second element
SecondIndexAlwaysSecond(pool) == 2

SecondIndex(pool) ==
    IF DifferentBranchIndex(pool) # 0 THEN DifferentBranchIndex(pool) ELSE 2

\* the pool after splice(index, 1) and shift()
PoolAfterPairKeepSecond(pool) == Tail(pool)

PoolAfterPair(pool) == Tail(RemoveAt(pool, SecondIndex(pool)))

(***************************************************************************)
(* Post-pass: sort and summary                                             *)
(***************************************************************************)
\* the hall ticket numbers of the model, listed in collation order
HallTickets == << "21R01A0501", "21R01A0502", "21R01A0503", "21R01A0504", "21R01A0505", "21R01A0506" >>

\* a.hallTicketNumber.localeCompare(b.hallTicketNumber)
localeCompare(a, b) == IndexOf(HallTickets, a) - IndexOf(HallTickets, b)

\* Array.prototype.sort is stable: an element comes after the elements that compare
\* smaller and after the earlier elements that compare equal
SortedPosition(plan, k) ==
    1 + Cardinality({ m \in DOMAIN plan :
                        \/ localeCompare(plan[m].hallTicketNumber, plan[k].hallTicketNumber) < 0
                        \/ /\ localeCompare(plan[m].hallTicketNumber, plan[k].hallTicketNumber) = 0
                           /\ m < k })

SortByHallTicketKeepOrder(plan) == plan

SortByHallTicket(plan) ==
    [ p \in DOMAIN plan |-> plan[CHOOSE k \in DOMAIN plan : SortedPosition(plan, k) = p] ]

\* the forEach of lines 288-298
RoomBranchSummaryPerRoom(plan) ==
    [ c \in { plan[k].classroom : k \in DOMAIN plan } |->
        [ b \in { plan[k].branch : k \in { m \in DOMAIN plan : plan[m].classroom = c } } |->
            Cardinality({ k \in DOMAIN plan : plan[k].classroom = c }) ] ]

RoomBranchSummaryOf(plan) ==
    [ c \in { plan[k].classroom : k \in DOMAIN plan } |->
        [ b \in { plan[k].branch : k \in { m \in DOMAIN plan : plan[m].classroom = c } } |->
            Cardinality({ k \in DOMAIN plan : plan[k].classroom = c /\ plan[k].branch = b }) ] ]

ExamConfigOf(l) ==
    [ startDate |-> l.startDate, endDate |-> l.endDate,
      examTimings |-> l.examTimings, useSamePlan |-> TRUE ]

Pending == [ pending |-> TRUE ]

\* return { error: ... } of lines 171 and 175
ErrorResultWithRoster(msg) == [ error |-> msg, allStudents |-> allStudents ]

ErrorResult(msg) == [ error |-> msg ]

(***************************************************************************)
(* The plan store: the file .data/seating-plan.json, absent or holding the *)
(* JSON of one saved plan                                                  *)
(***************************************************************************)
NoFile == [ exists |-> FALSE ]

FileOf(data) == [ exists |-> TRUE, data |-> data ]

(***************************************************************************)
(* seatingArrangementFlow, one action per step                             *)
(***************************************************************************)
allocVars == << totalCapacity, studentPool, seatingPlan, studentIndex,
                blockIdx, floorIdx, roomIdx, benchCounter, roomCapacity, i >>

\* line 168: allStudents.push(...students)
MergedInFront(all, students) == students \o all

Merged(all, students) == all \o students

\* lines 149-172: one iteration of the merge loop, and the catch of line 170
ReadFile ==
    /\ pc = "read"
    /\ fileIdx <= Len(files)
    /\ \E out \in ReadOutcomes(files[fileIdx]) :
          /\ resolved' = out.resolved
          /\ IF out.ok
             THEN /\ allStudents' = Merged(allStudents, out.students)
                  /\ fileIdx' = fileIdx + 1
                  /\ UNCHANGED << pc, result >>
             ELSE /\ result' = ErrorResult(out.error)
                  /\ pc' = "done"
                  /\ UNCHANGED << allStudents, fileIdx >>
    /\ UNCHANGED << files, layout >>
    /\ UNCHANGED allocVars
    /\ UNCHANGED hdrVars
    /\ UNCHANGED storeVars
    /\ UNCHANGED readerVars
    /\ UNCHANGED facultyVars

\* lines 174-208: the empty-roster check, totalCapacity, the partition by branch
\* and the two shuffles
Partition ==
    /\ pc = "read"
    /\ fileIdx > Len(files)
    /\ IF allStudents = << >>
       THEN /\ result' = ErrorResult(ErrNoStudents)
            /\ pc' = "done"
            /\ UNCHANGED allocVars
       ELSE /\ totalCapacity' = TotalCapacity(layout.blocks)
            /\ studentPool' \in ShuffledPools(allStudents)
            /\ seatingPlan' = << >>
            /\ studentIndex' = 0
            /\ blockIdx' = 1
            /\ floorIdx' = 1
            /\ roomIdx' = 1
            /\ pc' = "room"
            /\ UNCHANGED << benchCounter, roomCapacity, i, result >>
    /\ UNCHANGED << files, layout, fileIdx, resolved, allStudents >>
    /\ UNCHANGED hdrVars
    /\ UNCHANGED storeVars
    /\ UNCHANGED readerVars
    /\ UNCHANGED facultyVars

\* lines 213-216: the head of the room loop's body
EnterRoom ==
    /\ pc = "room"
    /\ IF studentIndex >= totalCapacity
       THEN /\ MoveTo(AfterFloor(blockIdx, floorIdx))
            /\ UNCHANGED << benchCounter, roomCapacity, i >>
       ELSE /\ benchCounter' = 1
            /\ roomCapacity' = RoomCapacity(CurrentRoom)
            /\ i' = 0
            /\ pc' = "bench"
            /\ UNCHANGED << blockIdx, floorIdx, roomIdx >>
    /\ UNCHANGED << files, layout, fileIdx, resolved, allStudents, result >>
    /\ UNCHANGED << totalCapacity, studentPool, seatingPlan, studentIndex >>
    /\ UNCHANGED hdrVars
    /\ UNCHANGED storeVars
    /\ UNCHANGED readerVars
    /\ UNCHANGED facultyVars

\* lines 227-232: one slot of a single-seat room
SeatSingle ==
    /\ pc = "bench"
    /\ Continues
    /\ CurrentRoom.studentsPerBench = 1
    /\ seatingPlan' = Append(seatingPlan, Assignment(Head(studentPool), ToString(benchCounter)))
    /\ studentPool' = Tail(studentPool)
    /\ benchCounter' = benchCounter + 1
    /\ studentIndex' = studentIndex + 1
    /\ i' = i + 1
    /\ UNCHANGED << files, layout, fileIdx, resolved, allStudents, result >>
    /\ UNCHANGED << pc, totalCapacity, blockIdx, floorIdx, roomIdx, roomCapacity >>
    /\ UNCHANGED hdrVars
    /\ UNCHANGED storeVars
    /\ UNCHANGED readerVars
    /\ UNCHANGED facultyVars

\* line 237: the bench number of the student seated alone
LoneSeatOnRight(n) == ToString(n) \o "R"

LoneSeat(n) == ToString(n) \o "L"

\* lines 234-242: a two-seat room with fewer than two students left in the pool
SeatLast ==
    /\ pc = "bench"
    /\ Continues
    /\ CurrentRoom.studentsPerBench = 2
    /\ Len(studentPool) < 2
    /\ seatingPlan' = Append(seatingPlan, Assignment(Head(studentPool), LoneSeat(benchCounter)))
    /\ studentPool' = Tail(studentPool)
    /\ studentIndex' = studentIndex + 1
    /\ benchCounter' = benchCounter + 1
    /\ i' = i + 1
    /\ UNCHANGED << files, layout, fileIdx, resolved, allStudents, result >>
    /\ UNCHANGED << pc, totalCapacity, blockIdx, floorIdx, roomIdx, roomCapacity >>
    /\ UNCHANGED hdrVars
    /\ UNCHANGED storeVars
    /\ UNCHANGED readerVars
    /\ UNCHANGED facultyVars

\* lines 244-271: one bench of a two-seat room
SeatPair ==
    /\ pc = "bench"
    /\ Continues
    /\ CurrentRoom.studentsPerBench = 2
    /\ Len(studentPool) >= 2
    /\ LET student1 == studentPool[1]
           student2 == studentPool[SecondIndex(studentPool)]
           left     == Assignment(student1, ToString(benchCounter) \o "L")
           right    == Assignment(student2, ToString(benchCounter) \o "R")
       IN  /\ studentPool' = PoolAfterPair(studentPool)
           /\ IF studentIndex + 1 >= totalCapacity
              THEN /\ seatingPlan' = Append(seatingPlan, left)
                   /\ studentIndex' = studentIndex + 1
                   /\ UNCHANGED << benchCounter, i >>
              ELSE /\ seatingPlan' = seatingPlan \o << left, right >>
                   /\ studentIndex' = studentIndex + 2
                   /\ benchCounter' = benchCounter + 1
                   /\ i' = i + 2
    /\ UNCHANGED << files, layout, fileIdx, resolved, allStudents, result >>
    /\ UNCHANGED << pc, totalCapacity, blockIdx, floorIdx, roomIdx, roomCapacity >>
    /\ UNCHANGED hdrVars
    /\ UNCHANGED storeVars
    /\ UNCHANGED readerVars
    /\ UNCHANGED facultyVars

\* the room's loop ends (its condition fails or line 219 breaks): on to the next room
LeaveRoom ==
    /\ pc = "bench"
    /\ ~Continues
    /\ MoveTo(AfterRoom(blockIdx, floorIdx, roomIdx))
    /\ UNCHANGED << files, layout, fileIdx, resolved, allStudents, result >>
    /\ UNCHANGED << totalCapacity, studentPool, seatingPlan, studentIndex,
                    benchCounter, roomCapacity, i >>
    /\ UNCHANGED hdrVars
    /\ UNCHANGED storeVars
    /\ UNCHANGED readerVars
    /\ UNCHANGED facultyVars

\* lines 278-300: the sort, the exam configuration, the summary and the return
Finish ==
    /\ pc = "sort"
    /\ seatingPlan' = SortByHallTicket(seatingPlan)
    /\ result' = [ seatingPlan       |-> seatingPlan',
                   examConfig        |-> ExamConfigOf(layout),
                   roomBranchSummary |-> RoomBranchSummaryOf(seatingPlan'),
                   allStudents       |-> allStudents ]
    /\ pc' = "done"
    /\ UNCHANGED << files, layout, fileIdx, resolved, allStudents >>
    /\ UNCHANGED << totalCapacity, studentPool, studentIndex,
                    blockIdx, floorIdx, roomIdx, benchCounter, roomCapacity, i >>
    /\ UNCHANGED hdrVars
    /\ UNCHANGED storeVars
    /\ UNCHANGED readerVars
    /\ UNCHANGED facultyVars

(***************************************************************************)
(* Inputs                                                                  *)
(***************************************************************************)
MaxStudents == 4        \* rows of a roster file with pairwise distinct students
MaxBenches == 2         \* benches of a small room
MaxFiles == 2           \* files of a batch
Extra == 1              \* benches of a large room beyond MaxBenchesPerRoom
MaxHeaderLen == 2       \* characters of an enumerated header string
MaxRowLen == 3          \* columns of an enumerated header row
MaxCalls == 2           \* invocations of the faculty actions in one run

BranchNames == << "CSE", "ECE", "IT" >>

Branches == Range(BranchNames)

HdrName       == <<"N","a","m","e">>
HdrPaddedName == <<" ","N","a","m","e"," ">>
HdrRollNo     == <<"R","o","l","l"," ","N","o">>
HdrBranch     == <<"B","r","a","n","c","h">>
HdrPhone      == <<"P","h","o","n","e">>
HdrStudentName == <<"S","t","u","d","e","n","t"," ","N","a","m","e">>
HdrDept       == <<"D","e","p","t">>
HdrMobile     == <<"M","o","b","i","l","e">>
HdrHallTicketNo == <<"H","a","l","l","-","T","i","c","k","e","t"," ","N","o",".">>
HdrHallticketno == <<"h","a","l","l","t","i","c","k","e","t","n","o">>
HdrBranchName  == <<"B","r","a","n","c","h"," ","N","a","m","e">>

CanonicalHeaders == << HdrPaddedName, HdrRollNo, HdrBranch, HdrPhone >>

ScenarioHeaders == << HdrRollNo, HdrStudentName, HdrDept, HdrMobile >>

\* a header row whose branch column stands before its name column
ShadowedHeaders == << HdrBranchName, HdrPaddedName, HdrRollNo, HdrPhone >>

Student(k, branch) ==
    [ name |-> "S" \o ToString(k), hallTicketNumber |-> HallTickets[k],
      branch |-> branch, contactNumber |-> "9000000000" ]

RowOf(st) == << st.name, st.hallTicketNumber, st.branch, st.contactNumber >>

File(tag, kind, headers, rows, parseErrors) ==
    [ tag |-> tag, kind |-> kind, headers |-> headers, rows |-> rows, parseErrors |-> parseErrors ]

CsvOf(students) ==
    File("csv", "csv", CanonicalHeaders, [k \in DOMAIN students |-> RowOf(students[k])], FALSE)

\* the code never looks at what a branch is called, only at whether two branches
\* are the same string: a roster names its branches in order of first appearance
InOrderOfAppearance(br) ==
    \A k \in DOMAIN br :
        \/ IndexOf(BranchNames, br[k]) = 1
        \/ \E m \in 1..(k-1) : IndexOf(BranchNames, br[m]) >= IndexOf(BranchNames, br[k]) - 1

\* rosters of up to MaxStudents pairwise distinct students over Branches
SmallRosters ==
    UNION { { [k \in 1..n |-> Student(k, br[k])] :
                br \in { b \in [1..n -> Branches] : InOrderOfAppearance(b) } } : n \in 0..MaxStudents }

Copies(n, st) == [k \in 1..n |-> st]

\* rosters that overflow a room of more than MaxBenchesPerRoom benches: the same
\* row repeated
LargeRosters ==
    { Copies(MaxBenchesPerRoom + Extra, Student(1, "CSE")),
      Copies(MaxBenchesPerRoom + Extra, Student(1, "CSE"))
          \o Copies(MaxBenchesPerRoom + Extra, Student(2, "ECE")) }

\* a roster whose branch strings differ only in letter case
MixedCaseRosters ==
    { << Student(1, "CSE"), Student(2, "cse"), Student(3, "CSE") >> }

Room(number, benches, studentsPerBench) ==
    [ number |-> number, benches |-> benches, studentsPerBench |-> studentsPerBench ]

Floor(number, rooms) == [ number |-> number, rooms |-> rooms ]

Block(name, floors) == [ name |-> name, floors |-> floors ]

Layout(blocks) ==
    [ blocks |-> blocks, startDate |-> "2025-05-01", endDate |-> "2025-05-03",
      examTimings |-> << "10:00 AM - 1:00 PM" >> ]

SmallRooms(number) ==
    { Room(number, b, spb) : b \in 1..MaxBenches, spb \in { 1, 2 } }

UnitRooms(number) == { Room(number, 1, spb) : spb \in { 1, 2 } }

LargeRooms(number) == { Room(number, MaxBenchesPerRoom + Extra, spb) : spb \in { 1, 2 } }

\* layouts whose rooms have pairwise distinct (block, floor, number)
DistinctLayouts ==
    { Layout(<< Block("A", << Floor(1, << r >>) >>) >>) : r \in SmallRooms("101") }
    \cup { Layout(<< Block("A", << Floor(1, << r1, r2 >>) >>) >>) :
              r1 \in SmallRooms("101"), r2 \in UnitRooms("102") }
    \cup { Layout(<< Block("A", << Floor(1, << r1 >>), Floor(2, << r2 >>) >>) >>) :
              r1 \in UnitRooms("101"), r2 \in UnitRooms("101") }
    \cup { Layout(<< Block("A", << Floor(1, << r1 >>) >>), Block("B", << Floor(1, << r2 >>) >>) >>) :
              r1 \in UnitRooms("101"), r2 \in UnitRooms("101") }
    \cup { Layout(<< Block("A", << Floor(1, << r >>) >>) >>) : r \in LargeRooms("101") }
    \cup { Layout(<< Block("A", << Floor(1, << r1, r2 >>) >>) >>) :
              r1 \in LargeRooms("101"), r2 \in UnitRooms("102") }

\* the schema does not ask room numbers to be distinct within a floor
RepeatedRoomLayouts ==
    { Layout(<< Block("A", << Floor(1, << r1, r2 >>) >>) >>) :
          r1 \in UnitRooms("101"), r2 \in UnitRooms("101") }

Layouts == DistinctLayouts \cup RepeatedRoomLayouts

\* files that exercise the readers and the reader selection
OneStudentRows(k) == << RowOf(Student(k, "CSE")) >>

ReaderFiles ==
    { File(tag, "csv", CanonicalHeaders, OneStudentRows(1), FALSE) : tag \in { "csv", "xls", "other", "pdf" } }
    \cup { File("csv", "csv", CanonicalHeaders, << >>, FALSE),
           File("csv", "csv", CanonicalHeaders,
                << << "", HallTickets[3], "IT", "9000000000" >>,
                   << "S3", HallTickets[3], "", "9000000000" >> >>, FALSE),
           File("csv", "csv", ScenarioHeaders,
                << << HallTickets[3], "S3", "IT", "9000000000" >> >>, FALSE),
           File("csv", "csv", CanonicalHeaders, OneStudentRows(1), TRUE) }
    \cup { File(tag, "pdf", CanonicalHeaders, OneStudentRows(2), FALSE) : tag \in { "pdf", "other", "csv" } }
    \cup { File("pdf", "pdf", CanonicalHeaders, << >>, FALSE),
           File("pdf", "pdf", CanonicalHeaders, << << "S2", HallTickets[2], "", "9000000000" >> >>, FALSE),
           File("other", "pdf", << HdrName, HdrRollNo, HdrBranch >>,
                << << "S2", HallTickets[2], "ECE" >> >>, FALSE),
           File("other", "junk", << >>, << >>, FALSE) }

ReaderBatches ==
    UNION { [1..n -> ReaderFiles] : n \in 0..MaxFiles }

HeaderStrings ==
    UNION { [1..n -> { "A", "a", "1", " ", "-" }] : n \in 0..MaxHeaderLen }
    \cup { HdrHallTicketNo, HdrHallticketno, HdrPaddedName, HdrRollNo }

(***************************************************************************)
(* The flow                                                                *)
(***************************************************************************)
Init ==
    /\ \/ /\ \E roster \in SmallRosters \cup LargeRosters \cup MixedCaseRosters :
                files = << CsvOf(roster) >>
          /\ layout \in Layouts
       \/ /\ files \in ReaderBatches
          /\ layout = Layout(<< Block("A", << Floor(1, << Room("101", 1, 2), Room("102", 1, 1) >>) >>) >>)
    /\ pc = "read"
    /\ fileIdx = 1
    /\ resolved = NoHeaders
    /\ allStudents = << >>
    /\ totalCapacity = 0
    /\ studentPool = << >>
    /\ seatingPlan = << >>
    /\ studentIndex = 0
    /\ blockIdx = 0
    /\ floorIdx = 0
    /\ roomIdx = 0
    /\ benchCounter = 0
    /\ roomCapacity = 0
    /\ i = 0
    /\ result = Pending
    /\ hdrA = << >>
    /\ hdrB = << >>
    /\ normA = << >>
    /\ normB = << >>
    /\ normAA = << >>
    /\ planStore = NoFile
    /\ returned = Pending
    /\ fetched = Pending
    /\ outcome = Pending
    /\ matched = Pending
    /\ authFile = NoFile
    /\ calls = << >>
    /\ verdict = Pending

Next ==
    \/ ReadFile
    \/ Partition
    \/ EnterRoom
    \/ SeatSingle
    \/ SeatLast
    \/ SeatPair
    \/ LeaveRoom
    \/ Finish

Spec == Init /\ [][Next]_vars

(***************************************************************************)
(* normalizeHeader as a function of its input                              *)
(***************************************************************************)
InitHeader ==
    /\ hdrA \in HeaderStrings
    /\ hdrB \in HeaderStrings
    /\ normA = << >>
    /\ normB = << >>
    /\ normAA = << >>
    /\ pc = "header"
    /\ files = << >>
    /\ layout = Layout(<< >>)
    /\ fileIdx = 1
    /\ resolved = NoHeaders
    /\ allStudents = << >>
    /\ totalCapacity = 0
    /\ studentPool = << >>
    /\ seatingPlan = << >>
    /\ studentIndex = 0
    /\ blockIdx = 0
    /\ floorIdx = 0
    /\ roomIdx = 0
    /\ benchCounter = 0
    /\ roomCapacity = 0
    /\ i = 0
    /\ result = Pending
    /\ planStore = NoFile
    /\ returned = Pending
    /\ fetched = Pending
    /\ outcome = Pending
    /\ matched = Pending
    /\ authFile = NoFile
    /\ calls = << >>
    /\ verdict = Pending

Normalize ==
    /\ pc = "header"
    /\ normA' = normalizeHeader(hdrA)
    /\ normB' = normalizeHeader(hdrB)
    /\ pc' = "normalized"
    /\ UNCHANGED << hdrA, hdrB, normAA >>
    /\ UNCHANGED flowVars
    /\ UNCHANGED storeVars
    /\ UNCHANGED readerVars
    /\ UNCHANGED facultyVars

Renormalize ==
    /\ pc = "normalized"
    /\ normAA' = normalizeHeader(normA)
    /\ pc' = "renormalized"
    /\ UNCHANGED << hdrA, hdrB, normA, normB >>
    /\ UNCHANGED flowVars
    /\ UNCHANGED storeVars
    /\ UNCHANGED readerVars
    /\ UNCHANGED facultyVars

NextHeader == Normalize \/ Renormalize

SpecHeader == InitHeader /\ [][NextHeader]_vars

(***************************************************************************)
(* createSeatingPlanAction and getSeatingDataAction over the plan store.   *)
(* A date of the layout is the string format(date, 'yyyy-MM-dd') gives for *)
(* it, or InvalidDate, on which format throws.                             *)
(***************************************************************************)
InvalidDate == "Invalid Date"

ErrInvalidTime == "Invalid time value"

\* the keys of dataToSave and the keys of the flow's result they are read from
SavedKeys ==
    [ plan |-> "seatingPlan", examConfig |-> "examConfig",
      summary |-> "roomBranchSummary", allStudents |-> "allStudents" ]

\* JSON.stringify(dataToSave): a key whose value is undefined is left out
DataToSave(res) ==
    [ k \in { x \in DOMAIN SavedKeys : SavedKeys[x] \in DOMAIN res } |-> res[SavedKeys[k]] ]

\* line 67: if (result.error)
ReturnsErrorNever(res) == FALSE

ReturnsError(res) == "error" \in DOMAIN res /\ res.error # ""

\* lines 54-63: the input is built; format throws on an invalid date and the
\* catch of line 82 returns the message
BuildInput ==
    /\ pc = "call"
    /\ IF layout.startDate = InvalidDate \/ layout.endDate = InvalidDate
       THEN /\ returned' = ErrorResult(ErrInvalidTime)
            /\ pc' = "returned"
       ELSE /\ pc' = "read"
            /\ UNCHANGED returned
    /\ UNCHANGED << planStore, fetched >>
    /\ UNCHANGED flowVars
    /\ UNCHANGED hdrVars
    /\ UNCHANGED readerVars
    /\ UNCHANGED facultyVars

\* lines 65-81: the flow has returned; an error is passed on, a plan is written to
\* the store and returned
SavePlan ==
    /\ pc = "done"
    /\ IF ReturnsError(result)
       THEN /\ returned' = ErrorResult(result.error)
            /\ UNCHANGED planStore
       ELSE /\ planStore' = FileOf(DataToSave(result))
            /\ returned' = [ success |-> TRUE, data |-> DataToSave(result) ]
    /\ pc' = "returned"
    /\ UNCHANGED fetched
    /\ UNCHANGED flowVars
    /\ UNCHANGED hdrVars
    /\ UNCHANGED readerVars
    /\ UNCHANGED facultyVars

\* lines 96-109: the stored plan, or {} when there is no file
getSeatingDataAction ==
    /\ pc = "returned"
    /\ fetched' = IF planStore.exists THEN planStore.data ELSE << >>
    /\ pc' = "fetched"
    /\ UNCHANGED << planStore, returned >>
    /\ UNCHANGED flowVars
    /\ UNCHANGED hdrVars
    /\ UNCHANGED readerVars
    /\ UNCHANGED facultyVars

\* what an earlier successful call left in the store
PreviousData ==
    [ plan        |-> << [ name |-> "S6", hallTicketNumber |-> HallTickets[6], branch |-> "CSE",
                           contactNumber |-> "9000000000", block |-> "A", floor |-> "1",
                           classroom |-> "101", benchNumber |-> "1L" ] >>,
      examConfig  |-> ExamConfigOf(Layout(<< >>)),
      summary     |-> [ c \in { "101" } |-> [ b \in { "CSE" } |-> 1 ] ],
      allStudents |-> << Student(6, "CSE") >> ]

StoreBatches ==
    { << CsvOf(roster) >> : roster \in SmallRosters }
    \cup { << CsvOf(roster), File("other", "junk", << >>, << >>, FALSE) >> : roster \in SmallRosters }

StoreLayouts ==
    { [ Layout(<< Block("A", << Floor(1, << r1, r2 >>) >>) >>) EXCEPT !.startDate = d ] :
          r1 \in SmallRooms("101"), r2 \in UnitRooms("102"), d \in { "2025-05-01", InvalidDate } }

InitStore ==
    /\ files \in StoreBatches
    /\ layout \in StoreLayouts
    /\ planStore \in { NoFile, FileOf(PreviousData) }
    /\ returned = Pending
    /\ fetched = Pending
    /\ outcome = Pending
    /\ matched = Pending
    /\ authFile = NoFile
    /\ calls = << >>
    /\ verdict = Pending
    /\ pc = "call"
    /\ fileIdx = 1
    /\ resolved = NoHeaders
    /\ allStudents = << >>
    /\ totalCapacity = 0
    /\ studentPool = << >>
    /\ seatingPlan = << >>
    /\ studentIndex = 0
    /\ blockIdx = 0
    /\ floorIdx = 0
    /\ roomIdx = 0
    /\ benchCounter = 0
    /\ roomCapacity = 0
    /\ i = 0
    /\ result = Pending
    /\ hdrA = << >>
    /\ hdrB = << >>
    /\ normA = << >>
    /\ normB = << >>
    /\ normAA = << >>

NextStore ==
    \/ BuildInput
    \/ ReadFile
    \/ Partition
    \/ EnterRoom
    \/ SeatSingle
    \/ SeatLast
    \/ SeatPair
    \/ LeaveRoom
    \/ Finish
    \/ SavePlan
    \/ getSeatingDataAction

SpecStore == InitStore /\ [][NextStore]_vars

(***************************************************************************)
(* findHeaderMatch and the two readers as functions of one file            *)
(***************************************************************************)
\* header rows of pairwise distinct cells
HeaderRows ==
    LET pool == { HdrPaddedName, HdrRollNo, HdrBranch, HdrPhone, HdrHallTicketNo, HdrBranchName }
    IN  UNION { { h \in [1..n -> pool] : \A j, m \in 1..n : h[j] = h[m] => j = m }
                : n \in 0..MaxRowLen }
    \cup { CanonicalHeaders, ScenarioHeaders, ShadowedHeaders }

\* a data row of n cells, the cell of column blank (if any) left empty
DataRow(n, blank) == [j \in 1..n |-> IF j = blank THEN "" ELSE "c" \o ToString(j)]

\* no data row, or a full row followed by a row with one blank cell
DataRows(n) ==
    { << >> } \cup { << DataRow(n, 0), DataRow(n, blank) >> : blank \in 1..n }

KeywordLists == { NameKeywords, HallTicketKeywords, BranchKeywords, ContactKeywords }

InitReader ==
    /\ \E kind \in { "csv", "pdf" } : \E headers \in HeaderRows :
            \E rows \in DataRows(Len(headers)) :
                files = << File(kind, kind, headers, rows, FALSE) >>
    /\ pc = "reader"
    /\ outcome = Pending
    /\ matched = Pending
    /\ authFile = NoFile
    /\ calls = << >>
    /\ verdict = Pending
    /\ layout = Layout(<< >>)
    /\ fileIdx = 1
    /\ resolved = NoHeaders
    /\ allStudents = << >>
    /\ totalCapacity = 0
    /\ studentPool = << >>
    /\ seatingPlan = << >>
    /\ studentIndex = 0
    /\ blockIdx = 0
    /\ floorIdx = 0
    /\ roomIdx = 0
    /\ benchCounter = 0
    /\ roomCapacity = 0
    /\ i = 0
    /\ result = Pending
    /\ hdrA = << >>
    /\ hdrB = << >>
    /\ normA = << >>
    /\ normB = << >>
    /\ normAA = << >>
    /\ planStore = NoFile
    /\ returned = Pending
    /\ fetched = Pending

\* one call of findHeaderMatch on the trimmed header row
Match ==
    /\ pc = "reader"
    /\ \E keywords \in KeywordLists :
            matched' = [ keywords |-> keywords,
                         header   |-> findHeaderMatch(TrimAll(files[1].headers), keywords) ]
    /\ pc' = "matched"
    /\ UNCHANGED outcome
    /\ UNCHANGED flowVars
    /\ UNCHANGED hdrVars
    /\ UNCHANGED storeVars
    /\ UNCHANGED facultyVars

ParseCSV ==
    /\ pc = "reader"
    /\ files[1].tag = "csv"
    /\ outcome' \in parseStudentsFromCSV(files[1])
    /\ pc' = "parsed"
    /\ UNCHANGED matched
    /\ UNCHANGED flowVars
    /\ UNCHANGED hdrVars
    /\ UNCHANGED storeVars
    /\ UNCHANGED facultyVars

ParsePDF ==
    /\ pc = "reader"
    /\ files[1].tag = "pdf"
    /\ outcome' \in parseStudentsFromPDF(files[1])
    /\ pc' = "parsed"
    /\ UNCHANGED matched
    /\ UNCHANGED flowVars
    /\ UNCHANGED hdrVars
    /\ UNCHANGED storeVars
    /\ UNCHANGED facultyVars

NextReader == Match \/ ParseCSV \/ ParsePDF

SpecReader == InitReader /\ [][NextReader]_vars

(***************************************************************************)
(* The faculty authorization file and validateFaculty.  A faculty_id is a  *)
(* sequence of characters, so that toLowerCase is computed; a name is a    *)
(* string of FacultyNames, ordered as localeCompare orders it.             *)
(***************************************************************************)
FacultyNames == << "Asha", "Divya", "Naveen", "Ramesh", "Sravani" >>

Faculty(name, id) == [ name |-> name, faculty_id |-> id ]

IdRamesh  == <<"M","R","U","E","2","1","0","9","T","0","2","9">>
IdDivya   == <<"M","R","U","E","2","1","0","9","T","0","6","1">>
IdRameshLower == ToLowerCase(IdRamesh)
IdUnknown == <<"M","R","U","E","2","1","0","9","T","0","9","9">>

DefaultKey == "FACULTY@2025#ACCESS"

FacultyAuthData(list, key) == [ authorized_faculty |-> list, secure_key |-> key ]

\* lines 20-28: what getFacultyData writes and returns when the file is missing
DefaultFacultyData ==
    FacultyAuthData(<< Faculty("Ramesh", IdRamesh),
                       Faculty("Sravani", <<"M","R","U","E","2","1","0","9","T","0","4","5">>),
                       Faculty("Naveen", <<"M","R","U","E","2","1","0","9","T","0","5","2">>),
                       Faculty("Divya", IdDivya) >>, DefaultKey)

\* line 36: what readFacultyAuthData returns when the file is missing
EmptyFacultyData == FacultyAuthData(<< >>, "")

getFacultyData == IF authFile.exists THEN authFile.data ELSE DefaultFacultyData

readFacultyAuthData == IF authFile.exists THEN authFile.data ELSE EmptyFacultyData

\* a comparison of faculty ids that tells letter cases apart
SameIdExactly(a, b) == a = b

SameIdIgnoringCase(a, b) == ToLowerCase(a) = ToLowerCase(b)

\* authorized_faculty.find(...) is defined
FacultyMember(authData, facultyId) ==
    \E k \in DOMAIN authData.authorized_faculty :
        SameIdIgnoringCase(authData.authorized_faculty[k].faculty_id, facultyId)

\* if (input.secureKey): the key is neither undefined nor the empty string
Truthy(input) == "secureKey" \in DOMAIN input /\ input.secureKey # ""

validateFaculty(authData, input) ==
    IF ~FacultyMember(authData, input.facultyId)
    THEN [ isAuthorized |-> FALSE, error |-> "Faculty ID not found." ]
    ELSE IF Truthy(input) /\ input.secureKey # authData.secure_key
    THEN [ isAuthorized |-> FALSE, error |-> "Secure key mismatch." ]
    ELSE [ isAuthorized |-> TRUE ]

\* line 131: { isValid: result.isAuthorized, error: result.error }
ActionResult(res) ==
    IF "error" \in DOMAIN res THEN [ isValid |-> res.isAuthorized, error |-> res.error ]
    ELSE [ isValid |-> res.isAuthorized ]

\* validateFacultyAction(facultyId) and validateFacultyAction(facultyId, secureKey)
ValidateInputs ==
    LET ids  == { IdRamesh, IdRameshLower, IdDivya, IdUnknown }
        keys == { "", DefaultKey, "FACULTY@2026#ACCESS", "wrong" }
    IN  { [ facultyId |-> id ] : id \in ids }
        \cup { [ facultyId |-> id, secureKey |-> key ] : id \in ids, key \in keys }

AuthFiles ==
    { NoFile,
      FileOf(DefaultFacultyData),
      FileOf(FacultyAuthData(<< Faculty("Ramesh", IdRameshLower) >>, "FACULTY@2026#ACCESS")),
      FileOf(FacultyAuthData(<< Faculty("Divya", IdDivya) >>, "")),
      FileOf(FacultyAuthData(<< Faculty("Divya", IdDivya), Faculty("Ramesh", IdRamesh) >>, "wrong")),
      FileOf(FacultyAuthData(<< Faculty("Asha", IdUnknown) >>, DefaultKey)),
      FileOf(EmptyFacultyData) }

InitValidate ==
    /\ authFile \in AuthFiles
    /\ calls = << >>
    /\ verdict = Pending
    /\ pc = "validate"
    /\ files = << >>
    /\ layout = Layout(<< >>)
    /\ fileIdx = 1
    /\ resolved = NoHeaders
    /\ allStudents = << >>
    /\ totalCapacity = 0
    /\ studentPool = << >>
    /\ seatingPlan = << >>
    /\ studentIndex = 0
    /\ blockIdx = 0
    /\ floorIdx = 0
    /\ roomIdx = 0
    /\ benchCounter = 0
    /\ roomCapacity = 0
    /\ i = 0
    /\ result = Pending
    /\ hdrA = << >>
    /\ hdrB = << >>
    /\ normA = << >>
    /\ normB = << >>
    /\ normAA = << >>
    /\ planStore = NoFile
    /\ returned = Pending
    /\ fetched = Pending
    /\ outcome = Pending
    /\ matched = Pending

\* validateFacultyAction: validateFaculty on what getFacultyData returns, which
\* creates the file with the default data when it is missing
validateFacultyAction ==
    /\ pc = "validate"
    /\ \E input \in ValidateInputs :
           verdict' = [ input |-> input,
                        result |-> ActionResult(validateFaculty(getFacultyData, input)) ]
    /\ authFile' = FileOf(getFacultyData)
    /\ pc' = "validated"
    /\ UNCHANGED calls
    /\ UNCHANGED flowVars
    /\ UNCHANGED hdrVars
    /\ UNCHANGED storeVars
    /\ UNCHANGED readerVars

NextValidate == validateFacultyAction

SpecValidate == InitValidate /\ [][NextValidate]_vars

(***************************************************************************)
(* addFacultyAction, deleteFacultyAction and updateSecureKeyAction.  Each  *)
(* invocation awaits readFacultyAuthData, works on the authData it got and *)
(* awaits writeFacultyAuthData; between the two awaits the steps of other  *)
(* invocations may run.  An invocation is a record of calls: its pc is     *)
(* "write" between the read and the write, "returned" afterwards.          *)
(***************************************************************************)
MinKeyLength == 8

Writing(op, authData) == [ op |-> op, pc |-> "write", authData |-> authData, result |-> Pending ]

Returned(op, authData, res) == [ op |-> op, pc |-> "returned", authData |-> authData, result |-> res ]

Success == [ success |-> TRUE ]

Failure(msg) == [ success |-> FALSE, error |-> msg ]

\* a.name.localeCompare(b.name)
NameCompare(a, b) == IndexOf(FacultyNames, a) - IndexOf(FacultyNames, b)

\* authorized_faculty.sort((a,b) => a.name.localeCompare(b.name))
\* the sort is stable: an entry comes after the entries of a smaller name and after
\* the earlier entries of the same name
SortByName(list) ==
    LET position(k) ==
            1 + Cardinality({ m \in DOMAIN list :
                                \/ NameCompare(list[m].name, list[k].name) < 0
                                \/ NameCompare(list[m].name, list[k].name) = 0 /\ m < k })
    IN  [ p \in DOMAIN list |-> list[CHOOSE k \in DOMAIN list : position(k) = p] ]

AddInputs ==
    { Faculty("Asha", IdUnknown), Faculty("Asha", ToLowerCase(IdUnknown)),
      Faculty("Ramesh", IdRameshLower), Faculty("", IdDivya) }

DeleteInputs == { IdRamesh, IdRameshLower, IdUnknown }

InitFaculty ==
    /\ authFile \in AuthFiles
    /\ calls = << >>
    /\ verdict = Pending
    /\ pc = "faculty"
    /\ files = << >>
    /\ layout = Layout(<< >>)
    /\ fileIdx = 1
    /\ resolved = NoHeaders
    /\ allStudents = << >>
    /\ totalCapacity = 0
    /\ studentPool = << >>
    /\ seatingPlan = << >>
    /\ studentIndex = 0
    /\ blockIdx = 0
    /\ floorIdx = 0
    /\ roomIdx = 0
    /\ benchCounter = 0
    /\ roomCapacity = 0
    /\ i = 0
    /\ result = Pending
    /\ hdrA = << >>
    /\ hdrB = << >>
    /\ normA = << >>
    /\ normB = << >>
    /\ normAA = << >>
    /\ planStore = NoFile
    /\ returned = Pending
    /\ fetched = Pending
    /\ outcome = Pending
    /\ matched = Pending

\* lines 150-163: addFacultyAction up to its await of writeFacultyAuthData
addFacultyAction ==
    /\ pc = "faculty"
    /\ Len(calls) < MaxCalls
    /\ \E newFaculty \in AddInputs :
          LET authData == readFacultyAuthData
              exists   == \E k \in DOMAIN authData.authorized_faculty :
                              SameIdIgnoringCase(authData.authorized_faculty[k].faculty_id,
                                                 newFaculty.faculty_id)
              pushed   == Append(authData.authorized_faculty, newFaculty)
          IN  calls' = Append(calls,
                  IF newFaculty.name = "" \/ newFaculty.faculty_id = << >>
                  THEN Returned("add", EmptyFacultyData, Failure("Faculty name and ID are required."))
                  ELSE IF exists
                  THEN Returned("add", authData, Failure("A faculty member with this ID already exists."))
                  ELSE Writing("add", FacultyAuthData(SortByName(pushed), authData.secure_key)))
    /\ UNCHANGED << authFile, verdict, pc >>
    /\ UNCHANGED flowVars
    /\ UNCHANGED hdrVars
    /\ UNCHANGED storeVars
    /\ UNCHANGED readerVars

\* lines 174-180: deleteFacultyAction up to its await of writeFacultyAuthData
deleteFacultyAction ==
    /\ pc = "faculty"
    /\ Len(calls) < MaxCalls
    /\ \E facultyId \in DeleteInputs :
          LET authData == readFacultyAuthData
              filtered == SelectSeq(authData.authorized_faculty,
                                    LAMBDA f : f.faculty_id # facultyId)
          IN  calls' = Append(calls,
                  IF Len(filtered) = Len(authData.authorized_faculty)
                  THEN Returned("delete", authData, Failure("Faculty ID not found to delete."))
                  ELSE Writing("delete", FacultyAuthData(filtered, authData.secure_key)))
    /\ UNCHANGED << authFile, verdict, pc >>
    /\ UNCHANGED flowVars
    /\ UNCHANGED hdrVars
    /\ UNCHANGED storeVars
    /\ UNCHANGED readerVars

\* lines 191-196: updateSecureKeyAction up to its await of writeFacultyAuthData
updateSecureKeyAction ==
    /\ pc = "faculty"
    /\ Len(calls) < MaxCalls
    /\ \E newKey \in { "FACULTY@2026#ACCESS", "wrong" } :
          LET authData == readFacultyAuthData
          IN  calls' = Append(calls,
                  IF Len(newKey) < MinKeyLength
                  THEN Returned("key", EmptyFacultyData,
                                Failure("Secure key must be at least 8 characters long."))
                  ELSE Writing("key", FacultyAuthData(authData.authorized_faculty, newKey)))
    /\ UNCHANGED << authFile, verdict, pc >>
    /\ UNCHANGED flowVars
    /\ UNCHANGED hdrVars
    /\ UNCHANGED storeVars
    /\ UNCHANGED readerVars

\* lines 43-46 and the return that follows the await: the file becomes the
\* authData of the invocation that wrote
writeFacultyAuthData ==
    /\ pc = "faculty"
    /\ \E c \in DOMAIN calls :
          /\ calls[c].pc = "write"
          /\ authFile' = FileOf(calls[c].authData)
          /\ calls' = [calls EXCEPT ![c].pc = "returned", ![c].result = Success]
    /\ UNCHANGED << verdict, pc >>
    /\ UNCHANGED flowVars
    /\ UNCHANGED hdrVars
    /\ UNCHANGED storeVars
    /\ UNCHANGED readerVars

NextFaculty ==
    \/ addFacultyAction
    \/ deleteFacultyAction
    \/ updateSecureKeyAction
    \/ writeFacultyAuthData

SpecFaculty == InitFaculty /\ [][NextFaculty]_vars

(***************************************************************************)
(* Vocabulary of the properties                                            *)
(***************************************************************************)
Succeeded == pc = "done" /\ "seatingPlan" \in DOMAIN result

Failed == pc = "done" /\ "error" \in DOMAIN result

MergeCompleted == fileIdx > Len(files)

\* the rooms of a layout in traversal order, each with the labels its seats carry
RECURSIVE RoomsOfFloor(_, _, _)
RoomsOfFloor(blockName, floorNumber, rooms) ==
    IF rooms = << >> THEN << >>
    ELSE << [ block |-> blockName, floor |-> ToString(floorNumber), room |-> Head(rooms) ] >>
         \o RoomsOfFloor(blockName, floorNumber, Tail(rooms))

RECURSIVE RoomsOfBlock(_, _)
RoomsOfBlock(blockName, floors) ==
    IF floors = << >> THEN << >>
    ELSE RoomsOfFloor(blockName, Head(floors).number, Head(floors).rooms)
         \o RoomsOfBlock(blockName, Tail(floors))

RECURSIVE RoomsOfBlocks(_)
RoomsOfBlocks(blocks) ==
    IF blocks = << >> THEN << >>
    ELSE RoomsOfBlock(Head(blocks).name, Head(blocks).floors) \o RoomsOfBlocks(Tail(blocks))

AllRooms == RoomsOfBlocks(layout.blocks)

\* min(configuredBenches, 45) x studentsPerBench
EffectiveCapacity(room) ==
    (IF room.benches < 45 THEN room.benches ELSE 45) * room.studentsPerBench

RECURSIVE SumEffective(_)
SumEffective(rooms) ==
    IF rooms = << >> THEN 0 ELSE EffectiveCapacity(Head(rooms).room) + SumEffective(Tail(rooms))

\* the layout's total capacity in the sense of the specification
EffectiveTotal == SumEffective(AllRooms)

StudentOf(a) ==
    [ name |-> a.name, hallTicketNumber |-> a.hallTicketNumber,
      branch |-> a.branch, contactNumber |-> a.contactNumber ]

Seated(plan) == [k \in DOMAIN plan |-> StudentOf(plan[k])]

BagOf(s) == [ x \in Range(s) |-> Cardinality({ k \in DOMAIN s : s[k] = x }) ]

SeatOf(a) == << a.block, a.floor, a.classroom, a.benchNumber >>

RoomLabel(a) == << a.block, a.floor, a.classroom >>

BranchCount(students, b) == Cardinality({ k \in DOMAIN students : students[k].branch = b })

BranchSet(students) == { students[k].branch : k \in DOMAIN students }

AllTwoSeat == \A k \in DOMAIN AllRooms : AllRooms[k].room.studentsPerBench = 2

IsRight(a) == \E n \in 1..(MaxBenchesPerRoom + Extra) : a.benchNumber = ToString(n) \o "R"

\* this step filled both seats of one bench
FilledBench ==
    /\ pc = "bench"
    /\ CurrentRoom.studentsPerBench = 2
    /\ Len(seatingPlan') = Len(seatingPlan) + 2

NewLeft == seatingPlan'[Len(seatingPlan) + 1]

NewRight == seatingPlan'[Len(seatingPlan) + 2]

(***************************************************************************)
(* C1: when the merged roster fits the layout (N <= the sum over rooms of  *)
(* min(benches,45) x studentsPerBench), the returned seatingPlan seats     *)
(* every roster entry exactly once, whatever the shuffles did: the         *)
(* students of the plan and the roster are the same multiset.              *)
(***************************************************************************)
C1_EveryStudentSeatedOnce ==
    (Succeeded /\ Len(allStudents) <= EffectiveTotal)
        => BagOf(Seated(result.seatingPlan)) = BagOf(allStudents)

C1_Witness ==
    /\ Succeeded
    /\ Len(allStudents) >= 3
    /\ Len(allStudents) <= EffectiveTotal
    /\ Cardinality(BranchSet(allStudents)) >= 2
    /\ \E k \in DOMAIN result.seatingPlan : IsRight(result.seatingPlan[k])
    /\ BagOf(Seated(result.seatingPlan)) = BagOf(allStudents)

(***************************************************************************)
(* C2: when the roster fits the layout, no two assignments of the returned *)
(* seatingPlan have the same (block, floor, classroom, benchNumber).       *)
(***************************************************************************)
C2_SeatsPairwiseDistinct ==
    (Succeeded /\ Len(allStudents) <= EffectiveTotal)
        => \A j, k \in DOMAIN result.seatingPlan :
              j # k => SeatOf(result.seatingPlan[j]) # SeatOf(result.seatingPlan[k])

(***************************************************************************)
(* C3: whenever a step fills both seats of a bench while the pool holds a  *)
(* student whose branch differs from the front student's, the L occupant   *)
(* is the front student and the R occupant has a different branch.         *)
(***************************************************************************)
C3_CrossBranchWhenCandidateExists ==
    [][ (FilledBench /\ \E k \in DOMAIN studentPool : studentPool[k].branch # studentPool[1].branch)
            => /\ StudentOf(NewLeft) = studentPool[1]
               /\ NewLeft.branch # NewRight.branch ]_vars

C3_Witness ==
    /\ pc = "bench"
    /\ Len(seatingPlan) >= 2
    /\ IsRight(seatingPlan[Len(seatingPlan)])
    /\ seatingPlan[Len(seatingPlan)].branch # seatingPlan[Len(seatingPlan) - 1].branch
    /\ studentPool # << >>

(***************************************************************************)
(* C4.  The students can be paired onto benches without a same-branch       *)
(* bench (all benches full but possibly one) exactly when no branch has    *)
(* more than half of them, rounded up.                                     *)
(* As claimed: in a layout of two-seat rooms that the roster fits, if such *)
(* a pairing exists then no bench is filled with two same-branch students. *)
(***************************************************************************)
Pairable(students) ==
    \A b \in BranchSet(students) : 2 * BranchCount(students, b) <= Len(students) + 1

C4_NoAvoidableSameBranchBench ==
    [][ (FilledBench /\ AllTwoSeat /\ Len(allStudents) <= EffectiveTotal /\ Pairable(allStudents))
            => NewLeft.branch # NewRight.branch ]_vars

(***************************************************************************)
(* C4 as amended: the same, for rosters with at most two distinct          *)
(* branches.                                                               *)
(***************************************************************************)
C4_NoAvoidableSameBranchBenchTwoBranches ==
    [][ (/\ FilledBench
         /\ AllTwoSeat
         /\ Len(allStudents) <= EffectiveTotal
         /\ Cardinality(BranchSet(allStudents)) <= 2
         /\ Pairable(allStudents))
            => NewLeft.branch # NewRight.branch ]_vars

C4_Witness ==
    /\ Succeeded
    /\ AllTwoSeat
    /\ Len(allStudents) = 4
    /\ Len(allStudents) <= EffectiveTotal
    /\ Cardinality(BranchSet(allStudents)) = 2
    /\ Pairable(allStudents)
    /\ Cardinality({ k \in DOMAIN result.seatingPlan : IsRight(result.seatingPlan[k]) }) = 2

(***************************************************************************)
(* C5: at every point of the allocation and in the returned plan, the      *)
(* assignments that carry a room's labels never outnumber                  *)
(* min(configuredBenches,45) x studentsPerBench, summed over the rooms     *)
(* that carry these labels (one room, when room labels are distinct).      *)
(***************************************************************************)
LabelOf(r) == << r.block, r.floor, r.room.number >>

RoomsLabelled(label) == SelectSeq(AllRooms, LAMBDA r : LabelOf(r) = label)

SeatedIn(plan, label) == Cardinality({ k \in DOMAIN plan : RoomLabel(plan[k]) = label })

C5_RoomNeverOverfilled ==
    \A k \in DOMAIN AllRooms :
        SeatedIn(seatingPlan, LabelOf(AllRooms[k])) <= SumEffective(RoomsLabelled(LabelOf(AllRooms[k])))

C5_Witness ==
    /\ pc = "done"
    /\ studentPool # << >>
    /\ \E k \in DOMAIN AllRooms :
          /\ AllRooms[k].room.benches > MaxBenchesPerRoom
          /\ Len(RoomsLabelled(LabelOf(AllRooms[k]))) = 1
          /\ SeatedIn(seatingPlan, LabelOf(AllRooms[k])) = EffectiveCapacity(AllRooms[k].room)

(***************************************************************************)
(* C6: a merged roster larger than the layout's capacity C is no error:    *)
(* the plan seats exactly C roster entries, each at most as often as the   *)
(* roster lists it, so N - C entries are left out, and the counts of       *)
(* roomBranchSummary sum to C.                                             *)
(***************************************************************************)
RECURSIVE SumOfCounts(_)
SumOfCounts(counts) ==
    IF DOMAIN counts = {} THEN 0
    ELSE LET b == CHOOSE x \in DOMAIN counts : TRUE
         IN  counts[b] + SumOfCounts([x \in DOMAIN counts \ { b } |-> counts[x]])

RECURSIVE SumOfSummary(_)
SumOfSummary(summary) ==
    IF DOMAIN summary = {} THEN 0
    ELSE LET c == CHOOSE x \in DOMAIN summary : TRUE
         IN  SumOfCounts(summary[c]) + SumOfSummary([x \in DOMAIN summary \ { c } |-> summary[x]])

C6_OverflowSeatsExactlyCapacity ==
    (pc = "done" /\ MergeCompleted /\ Len(allStudents) > EffectiveTotal)
        => /\ Succeeded
           /\ Len(result.seatingPlan) = EffectiveTotal
           /\ BagOf(Seated(result.seatingPlan)) \sqsubseteq BagOf(allStudents)
           /\ SumOfSummary(result.roomBranchSummary) = EffectiveTotal

C6_Witness ==
    /\ Succeeded
    /\ Len(allStudents) = EffectiveTotal + 1
    /\ EffectiveTotal >= 3
    /\ Len(result.seatingPlan) = EffectiveTotal
    /\ Cardinality(DOMAIN result.roomBranchSummary) = 2

(***************************************************************************)
(* C7: three students, two of one branch and one of another, and a single  *)
(* room of 2 benches at 2 per bench: all three are seated, bench 1 holds   *)
(* the lone-branch student and one of the other two on 1L and 1R, 2L holds *)
(* the remaining student, and there is no 2R.                              *)
(***************************************************************************)
ScenarioAAB ==
    /\ Len(allStudents) = 3
    /\ MergeCompleted
    /\ Cardinality(BranchSet(allStudents)) = 2
    /\ layout.blocks = << Block("A", << Floor(1, << Room("101", 2, 2) >>) >>) >>

LoneBranch == CHOOSE b \in BranchSet(allStudents) : BranchCount(allStudents, b) = 1

BenchNumbers(plan) == [k \in DOMAIN plan |-> plan[k].benchNumber]

BranchesOn(plan, benchNumbers) ==
    { plan[k].branch : k \in { m \in DOMAIN plan : plan[m].benchNumber \in benchNumbers } }

C7_ScenarioAAB ==
    (pc = "done" /\ ScenarioAAB)
        => /\ Succeeded
           /\ BagOf(Seated(result.seatingPlan)) = BagOf(allStudents)
           /\ BagOf(BenchNumbers(result.seatingPlan)) = BagOf(<< "1L", "1R", "2L" >>)
           /\ BranchesOn(result.seatingPlan, { "1L", "1R" }) = BranchSet(allStudents)
           /\ BranchesOn(result.seatingPlan, { "2L" }) = BranchSet(allStudents) \ { LoneBranch }

C7_Witness ==
    /\ Succeeded
    /\ ScenarioAAB
    /\ BranchesOn(result.seatingPlan, { "1L" }) = { LoneBranch }
    /\ BranchesOn(result.seatingPlan, { "2L" }) = BranchSet(allStudents) \ { LoneBranch }
    /\ "2R" \notin Range(BenchNumbers(result.seatingPlan))

(***************************************************************************)
(* C8.  The reader that last ran is the one that handled files[LastRead].  *)
(* As claimed: over the header row Roll No, Student Name, Dept, Mobile all *)
(* four fields resolve, branch to Dept.                                    *)
(***************************************************************************)
LastRead == IF Failed /\ ~MergeCompleted THEN fileIdx ELSE fileIdx - 1

ReadScenarioHeaders ==
    /\ pc # "header"
    /\ LastRead \in DOMAIN files
    /\ files[LastRead].kind = "csv"
    /\ files[LastRead].tag = "csv"
    /\ TrimAll(files[LastRead].headers) = ScenarioHeaders

C8_ScenarioHeadersResolve ==
    ReadScenarioHeaders
        => resolved = [ nameHeader |-> HdrStudentName, hallTicketHeader |-> HdrRollNo,
                        branchHeader |-> HdrDept, contactHeader |-> HdrMobile ]

(***************************************************************************)
(* C8 as amended: hallTicketNumber resolves to Roll No, name to Student    *)
(* Name and contactNumber to Mobile; branch does not resolve, and the      *)
(* reader rejects the file for its missing Branch column.                  *)
(***************************************************************************)
C8_ScenarioHeadersResolveButBranch ==
    ReadScenarioHeaders
        => /\ resolved = [ nameHeader |-> HdrStudentName, hallTicketHeader |-> HdrRollNo,
                           branchHeader |-> Undefined, contactHeader |-> HdrMobile ]
           /\ result = [ error |-> ErrCsvBranch ]

C8_Witness ==
    /\ ReadScenarioHeaders
    /\ Failed
    /\ resolved.hallTicketHeader = HdrRollNo
    /\ resolved.branchHeader = Undefined

(***************************************************************************)
(* C9: normalizeHeader returns the letters and digits of the header, in    *)
(* order and in lowercase; headers that differ only in letter case,        *)
(* whitespace or punctuation get the same result, as Hall-Ticket No. and   *)
(* hallticketno do; normalizing twice is normalizing once.                 *)
(***************************************************************************)
IsLetterOrDigit(c) == c \in Range(UpperChars) \cup Range(LowerChars) \cup Range(DigitChars)

LettersAndDigits(s) == SelectSeq(s, IsLetterOrDigit)

SameUpToCaseSpacePunctuation(a, b) ==
    /\ Len(LettersAndDigits(a)) = Len(LettersAndDigits(b))
    /\ \A k \in DOMAIN LettersAndDigits(a) :
          ToLowerChar(LettersAndDigits(a)[k]) = ToLowerChar(LettersAndDigits(b)[k])

C9_NormalizeHeader ==
    /\ pc \in { "normalized", "renormalized" }
          => /\ Len(normA) = Len(LettersAndDigits(hdrA))
             /\ \A k \in DOMAIN normA : normA[k] = ToLowerChar(LettersAndDigits(hdrA)[k])
             /\ SameUpToCaseSpacePunctuation(hdrA, hdrB) => normA = normB
             /\ (hdrA = HdrHallTicketNo /\ hdrB = HdrHallticketno) => normA = normB
    /\ pc = "renormalized" => normAA = normA

C9_Witness ==
    /\ pc = "renormalized"
    /\ hdrA = HdrHallTicketNo
    /\ hdrB = HdrHallticketno
    /\ normA = normB
    /\ normA # hdrA
    /\ normAA = normA

(***************************************************************************)
(* C10: if a file of the batch yields no student, whichever reader handles *)
(* it, the invocation ends in an error whatever the other files hold.      *)
(***************************************************************************)
YieldsNoStudent(f) == \A out \in ReadOutcomes(f) : out.students = << >>

C10_EmptyFileFailsBatch ==
    (pc = "done" /\ \E k \in DOMAIN files : YieldsNoStudent(files[k])) => Failed

(***************************************************************************)
(* C11: a result carries exactly one of error and seatingPlan; when the    *)
(* read of a file raised an error, the result is the error message alone,  *)
(* without seatingPlan, roomBranchSummary, examConfig or allStudents, also *)
(* when earlier files of the batch were read successfully.                 *)
(***************************************************************************)
ReadRaised == Failed /\ ~MergeCompleted

C11_ErrorResultIsErrorOnly ==
    pc = "done"
        => /\ ("error" \in DOMAIN result) # ("seatingPlan" \in DOMAIN result)
           /\ ReadRaised => DOMAIN result = { "error" }

C11_Witness ==
    /\ ReadRaised
    /\ fileIdx = 2
    /\ allStudents # << >>
    /\ DOMAIN result = { "error" }

(***************************************************************************)
(* C12: when plan generation returns an error or throws, the call writes   *)
(* nothing to the plan store: a step of createSeatingPlanAction changes    *)
(* the store only when it returns success, so after a failed call the      *)
(* store is what it was before the call, and getSeatingDataAction then     *)
(* returns the plan stored before the call ({} when there was none).       *)
(***************************************************************************)
\* plan generation threw (the flow never returned) or returned an error
GenerationFailed == result = Pending \/ "error" \in DOMAIN result

C12_FailedCallLeavesStore ==
    [][ /\ (pc \in { "call", "read", "room", "bench", "sort" } \/ (pc = "done" /\ GenerationFailed))
              => planStore' = planStore
        /\ (pc = "returned" /\ GenerationFailed /\ pc' = "fetched")
              => fetched' = IF planStore.exists THEN planStore.data ELSE << >> ]_vars

C12_Witness ==
    /\ pc = "fetched"
    /\ GenerationFailed
    /\ "error" \in DOMAIN returned
    /\ allStudents # << >>
    /\ planStore = FileOf(PreviousData)
    /\ fetched = PreviousData

(***************************************************************************)
(* C13: the returned seatingPlan is ordered by hallTicketNumber: of two    *)
(* consecutive assignments the first never compares greater than the       *)
(* second; and the sort only reorders: the sorted list holds the           *)
(* assignments of the allocation pass, each as often as the pass made it.  *)
(***************************************************************************)
OrderedByHallTicket(plan) ==
    \A k \in 1..(Len(plan) - 1) :
        ~(localeCompare(plan[k].hallTicketNumber, plan[k + 1].hallTicketNumber) > 0)

C13_PlanSortedByHallTicket ==
    [][ pc = "sort"
            => /\ "seatingPlan" \in DOMAIN result'
               /\ OrderedByHallTicket(result'.seatingPlan)
               /\ Len(result'.seatingPlan) = Len(seatingPlan)
               /\ BagOf(result'.seatingPlan) = BagOf(seatingPlan) ]_vars

C13_Witness ==
    /\ Succeeded
    /\ Len(result.seatingPlan) >= 3
    /\ Cardinality({ result.seatingPlan[k].hallTicketNumber : k \in DOMAIN result.seatingPlan }) >= 3
    /\ OrderedByHallTicket(result.seatingPlan)
    /\ result.seatingPlan[1].benchNumber \notin { "1", "1L" }

(***************************************************************************)
(* C14: for every classroom c and branch b, roomBranchSummary[c][b] is the *)
(* number of assignments of the final seatingPlan with classroom c and     *)
(* branch b; there is an entry only when that number is at least 1; the    *)
(* counts sum to the length of seatingPlan.                                *)
(***************************************************************************)
SeatedOf(plan, c, b) ==
    Cardinality({ k \in DOMAIN plan : plan[k].classroom = c /\ plan[k].branch = b })

C14_SummaryCountsAssignments ==
    Succeeded
        => LET plan    == result.seatingPlan
               summary == result.roomBranchSummary
           IN  /\ \A k \in DOMAIN plan :
                     /\ plan[k].classroom \in DOMAIN summary
                     /\ plan[k].branch \in DOMAIN summary[plan[k].classroom]
               /\ \A c \in DOMAIN summary : \A b \in DOMAIN summary[c] :
                     /\ summary[c][b] = SeatedOf(plan, c, b)
                     /\ summary[c][b] >= 1
               /\ SumOfSummary(summary) = Len(plan)

C14_Witness ==
    /\ Succeeded
    /\ Cardinality(DOMAIN result.roomBranchSummary) = 2
    /\ \E c \in DOMAIN result.roomBranchSummary :
          /\ Cardinality(DOMAIN result.roomBranchSummary[c]) = 2
          /\ \E b \in DOMAIN result.roomBranchSummary[c] : result.roomBranchSummary[c][b] = 2

(***************************************************************************)
(* C15: on success allStudents is the concatenation of the per-file        *)
(* student lists in file-input order, each in row order: the shuffles and  *)
(* the allocator's removals from the pool, which have all happened by      *)
(* then, have neither reordered nor shortened it.                          *)
(***************************************************************************)
\* the students of a file's rows in row order, for the header row Name, Roll No,
\* Branch, Phone: a row gives a student when it has a name and a hall ticket
\* number (and, in a PDF, a cell for every header)
RowStudent(row) ==
    [ name |-> CellAt(row, 1), hallTicketNumber |-> CellAt(row, 2),
      branch |-> CellAt(row, 3), contactNumber |-> CellAt(row, 4) ]

RowsInOrder(f) ==
    LET usable == IF f.kind = "pdf"
                  THEN SelectSeq([k \in DOMAIN f.rows |-> PartsOf(f.rows[k])],
                                 LAMBDA parts : Len(parts) >= Len(CanonicalHeaders))
                  ELSE f.rows
    IN  SelectSeq([k \in DOMAIN usable |-> RowStudent(usable[k])],
                  LAMBDA st : st.name # "" /\ st.hallTicketNumber # "")

RECURSIVE Concatenated(_)
Concatenated(fs) ==
    IF fs = << >> THEN << >> ELSE RowsInOrder(Head(fs)) \o Concatenated(Tail(fs))

C15_RosterIsConcatenation ==
    (Succeeded /\ \A k \in DOMAIN files : files[k].headers = CanonicalHeaders)
        => /\ result.allStudents = Concatenated(files)
           /\ allStudents = result.allStudents

C15_Witness ==
    /\ Succeeded
    /\ Len(files) = 2
    /\ files[1].headers = CanonicalHeaders /\ files[2].headers = CanonicalHeaders
    /\ RowsInOrder(files[1]) = << Student(2, "CSE") >>
    /\ result.allStudents = << Student(2, "CSE"), Student(1, "CSE") >>
    /\ Seated(result.seatingPlan) = << Student(1, "CSE"), Student(2, "CSE") >>

(***************************************************************************)
(* C16: reader selection for one file.  A reader has no effect but what it *)
(* returns or throws, so which readers ran shows in the step's outcome.    *)
(* With the tag of PDF the step does what parseStudentsFromPDF alone does  *)
(* on the file, with a tag of CSV what parseStudentsFromCSV alone does, a  *)
(* failure ending the batch with that reader's message.  With any other    *)
(* tag the step takes the PDF reader's list if that reader succeeds, else  *)
(* the CSV reader's list if that one succeeds, and else ends the batch     *)
(* with the unsupported-file-type error.                                   *)
(***************************************************************************)
\* the step did with the file what the reader's outcome o says
StepTakes(o) ==
    IF o.ok
    THEN /\ pc' = "read"
         /\ fileIdx' = fileIdx + 1
         /\ allStudents' = allStudents \o o.students
    ELSE /\ pc' = "done"
         /\ result' = [ error |-> o.error ]
         /\ allStudents' = allStudents

StepRejectsAsUnsupported ==
    /\ pc' = "done"
    /\ result' = [ error |-> ErrUnsupported ]
    /\ allStudents' = allStudents

C16_ReaderSelection ==
    [][ (pc = "read" /\ fileIdx <= Len(files))
            => LET f == files[fileIdx]
               IN  /\ f.tag = "pdf" => \E p \in parseStudentsFromPDF(f) : StepTakes(p)
                   /\ f.tag \in { "csv", "xls" } => \E c \in parseStudentsFromCSV(f) : StepTakes(c)
                   /\ f.tag \notin { "pdf", "csv", "xls" }
                         => \E p \in parseStudentsFromPDF(f) :
                               IF p.ok THEN StepTakes(p)
                               ELSE \E c \in parseStudentsFromCSV(f) :
                                       IF c.ok THEN StepTakes(c) ELSE StepRejectsAsUnsupported ]_vars

C16_Witness ==
    /\ Failed
    /\ Len(files) = 2
    /\ fileIdx = 2
    /\ files[1].tag = "other" /\ files[1].kind = "csv"
    /\ allStudents = << Student(1, "CSE") >>
    /\ files[2].tag = "other" /\ files[2].kind = "pdf"
    /\ parseStudentsFromPDF(files[2]) = { Rejected(ErrPdfContact, ResolveHeaders(files[2].headers)) }
    /\ result = [ error |-> ErrUnsupported ]

(***************************************************************************)
(* C17: whatever the shuffles do, the pool handed to the allocator holds   *)
(* the students of the merged roster, each as often as the roster does,    *)
(* and the students of one branch (the same string, letter case included)  *)
(* form one contiguous run of it.                                          *)
(***************************************************************************)
\* a student whose branch occurs again later is followed by a student of that branch
BranchesContiguous(pool) ==
    \A k \in DOMAIN pool : \A m \in DOMAIN pool :
        (k < m /\ pool[k].branch = pool[m].branch) => pool[k + 1].branch = pool[k].branch

C17_PoolGroupsBranches ==
    [][ (pc = "read" /\ pc' = "room")
            => /\ Len(studentPool') = Len(allStudents)
               /\ BagOf(studentPool') = BagOf(allStudents)
               /\ BranchesContiguous(studentPool') ]_vars

C17_Witness ==
    /\ pc = "room"
    /\ seatingPlan = << >>
    /\ [ k \in DOMAIN allStudents |-> allStudents[k].branch ] = << "CSE", "cse", "CSE" >>
    /\ [ k \in DOMAIN studentPool |-> studentPool[k].branch ] = << "cse", "CSE", "CSE" >>
    /\ studentPool[2] = allStudents[3]

(***************************************************************************)
(* C18: while the allocator runs, the capacity ceiling its assigned-count  *)
(* cursor is compared with is the sum over all rooms of                    *)
(* min(configuredBenches,45) x studentsPerBench, also for a layout with a  *)
(* room of more than 45 benches.                                           *)
(***************************************************************************)
AllocatorRuns == pc \in { "room", "bench", "sort" }

C18_CeilingIsCappedSum ==
    AllocatorRuns => totalCapacity = EffectiveTotal

(***************************************************************************)
(* C19: blocks, floors and rooms are visited in input order: the allocator *)
(* starts at the first room, goes from a room to the next room of the      *)
(* layout's order, seats students only in the room it stands in, and ends  *)
(* after the last room unless the cursor has reached the ceiling; and once *)
(* the cursor has reached the ceiling (the total the code compares it      *)
(* with, or the sum of the capped room capacities) no assignment is added. *)
(***************************************************************************)
RECURSIVE RoomsInFloors(_)
RoomsInFloors(floors) ==
    IF floors = << >> THEN 0 ELSE Len(Head(floors).rooms) + RoomsInFloors(Tail(floors))

RECURSIVE RoomsInBlocks(_)
RoomsInBlocks(blocks) ==
    IF blocks = << >> THEN 0 ELSE RoomsInFloors(Head(blocks).floors) + RoomsInBlocks(Tail(blocks))

\* the place of room r of floor f of block b in the layout's input order
PlaceOf(b, f, r) ==
    RoomsInBlocks(SubSeq(layout.blocks, 1, b - 1)) + RoomsInFloors(SubSeq(Floors(b), 1, f - 1)) + r

Position == << blockIdx, floorIdx, roomIdx >>

CursorAtCeiling == studentIndex >= totalCapacity \/ studentIndex >= EffectiveTotal

C19_InputOrderAndHaltAtCeiling ==
    [][ /\ (pc = "read" /\ pc' = "room") => Position' = << 1, 1, 1 >>
        /\ (pc \in { "room", "bench" } /\ pc' \in { "room", "bench" } /\ Position' # Position)
              => PlaceOf(blockIdx', floorIdx', roomIdx') = PlaceOf(blockIdx, floorIdx, roomIdx) + 1
        /\ (pc \in { "room", "bench" } /\ pc' = "sort")
              => \/ PlaceOf(blockIdx, floorIdx, roomIdx) = Len(AllRooms)
                 \/ CursorAtCeiling
        /\ (AllocatorRuns /\ Len(seatingPlan') > Len(seatingPlan))
              => /\ AllRooms[PlaceOf(blockIdx, floorIdx, roomIdx)].room = CurrentRoom
                 /\ \A k \in (Len(seatingPlan) + 1)..Len(seatingPlan') :
                       RoomLabel(seatingPlan'[k]) = LabelOf(AllRooms[PlaceOf(blockIdx, floorIdx, roomIdx)])
        /\ (AllocatorRuns /\ CursorAtCeiling)
              => /\ Len(seatingPlan') = Len(seatingPlan)
                 /\ studentPool' = studentPool ]_vars

C19_Witness ==
    /\ pc = "done"
    /\ Succeeded
    /\ studentIndex = totalCapacity
    /\ studentPool # << >>
    /\ Len(layout.blocks) = 2
    /\ { result.seatingPlan[k].block : k \in DOMAIN result.seatingPlan } = { "A", "B" }

(***************************************************************************)
(* C20: in a two-seat room, a bench step taken with at least 2 students in *)
(* the pool seats the pool's front student s1 on "<n>L" and, as "<n>R" of  *)
(* the same bench n of the same room, the earliest student of the pool     *)
(* whose branch differs from s1's, or the pool's second student when there *)
(* is none; the pool loses exactly these two and keeps the others in their *)
(* order; the bench counter goes up by one.                                *)
(***************************************************************************)
PairStep ==
    /\ pc = "bench"
    /\ Continues
    /\ CurrentRoom.studentsPerBench = 2
    /\ Len(studentPool) >= 2

\* the place in the pool of the student s1 is to share the bench with
PartnerPlace ==
    IF \E k \in 2..Len(studentPool) : studentPool[k].branch # studentPool[1].branch
    THEN CHOOSE k \in 2..Len(studentPool) :
            /\ studentPool[k].branch # studentPool[1].branch
            /\ \A m \in 2..(k - 1) : studentPool[m].branch = studentPool[1].branch
    ELSE 2

C20_PairStep ==
    [][ PairStep
            => /\ Len(seatingPlan') = Len(seatingPlan) + 2
               /\ SubSeq(seatingPlan', 1, Len(seatingPlan)) = seatingPlan
               /\ StudentOf(NewLeft) = studentPool[1]
               /\ NewLeft.benchNumber = ToString(benchCounter) \o "L"
               /\ StudentOf(NewRight) = studentPool[PartnerPlace]
               /\ NewRight.benchNumber = ToString(benchCounter) \o "R"
               /\ RoomLabel(NewLeft) = RoomLabel(NewRight)
               /\ RoomLabel(NewLeft) = << layout.blocks[blockIdx].name,
                                          ToString(Floors(blockIdx)[floorIdx].number),
                                          CurrentRoom.number >>
               /\ Len(studentPool') = Len(studentPool) - 2
               /\ \A k \in DOMAIN studentPool' :
                     studentPool'[k] = IF k + 1 < PartnerPlace THEN studentPool[k + 1]
                                       ELSE studentPool[k + 2]
               /\ benchCounter' = benchCounter + 1 ]_vars

C20_Witness ==
    /\ pc = "bench"
    /\ benchCounter = 2
    /\ Len(allStudents) = 4
    /\ Len(seatingPlan) = 2
    /\ seatingPlan[1].benchNumber = "1L"
    /\ seatingPlan[2].benchNumber = "1R"
    /\ seatingPlan[1].branch # seatingPlan[2].branch
    /\ Len(studentPool) = 2
    /\ studentPool[1].branch = seatingPlan[1].branch
    /\ studentPool[2].branch = seatingPlan[2].branch

(***************************************************************************)
(* C21: in a two-seat room, a bench step taken with exactly one student in *)
(* the pool seats that student on "<n>L" of the next bench n of the room   *)
(* and nobody on "<n>R"; the pool is then empty; and with the pool empty   *)
(* no seat of this room or of a later room, floor or block gets a student. *)
(***************************************************************************)
LoneStep ==
    /\ pc = "bench"
    /\ Continues
    /\ CurrentRoom.studentsPerBench = 2
    /\ Len(studentPool) = 1

C21_LastStudentSeatedOnLeft ==
    [][ /\ LoneStep
            => /\ seatingPlan' = Append(seatingPlan, seatingPlan'[Len(seatingPlan) + 1])
               /\ StudentOf(NewLeft) = studentPool[1]
               /\ NewLeft.benchNumber = ToString(benchCounter) \o "L"
               /\ RoomLabel(NewLeft) = << layout.blocks[blockIdx].name,
                                          ToString(Floors(blockIdx)[floorIdx].number),
                                          CurrentRoom.number >>
               /\ studentPool' = << >>
               /\ benchCounter' = benchCounter + 1
        /\ (AllocatorRuns /\ studentPool = << >>)
            => /\ Len(seatingPlan') = Len(seatingPlan)
               /\ studentPool' = << >> ]_vars

C21_Witness ==
    /\ pc = "done"
    /\ Succeeded
    /\ Len(AllRooms) = 2
    /\ AllRooms[1].room = Room("101", 2, 2)
    /\ Len(allStudents) = 3
    /\ BagOf(BenchNumbers(result.seatingPlan)) = BagOf(<< "1L", "1R", "2L" >>)
    /\ \A k \in DOMAIN result.seatingPlan : result.seatingPlan[k].classroom = "101"

(***************************************************************************)
(* C22  findHeaderMatch gives keyword priority precedence over header      *)
(* position: it returns the first header, in header-row order, whose       *)
(* normalized form contains the normalized form of the earliest keyword of *)
(* the priority list that any header contains; it returns that header in   *)
(* its original spelling; it returns no match only when no keyword is      *)
(* contained in any normalized header.                                     *)
(***************************************************************************)
MatchedOn == TrimAll(files[1].headers)

C22_KeywordPriorityBeforePosition ==
    pc = "matched" =>
        LET normHeaders  == [j \in DOMAIN MatchedOn |-> normalizeHeader(MatchedOn[j])]
            normKeywords == [k \in DOMAIN matched.keywords |-> normalizeHeader(matched.keywords[k])]
            hits     == { kj \in (DOMAIN normKeywords) \X (DOMAIN normHeaders) :
                             Includes(normHeaders[kj[2]], normKeywords[kj[1]]) }
            earliest == CHOOSE k \in { kj[1] : kj \in hits } : \A kj \in hits : k <= kj[1]
            first    == CHOOSE j \in { kj[2] : kj \in hits } :
                            /\ << earliest, j >> \in hits
                            /\ \A m \in 1..(j-1) : << earliest, m >> \notin hits
        IN  /\ hits = {} <=> matched.header = Undefined
            /\ hits # {} => matched.header = MatchedOn[first]

\* "Roll No" stands before "Hall-Ticket No." and the later header is returned,
\* punctuation and capitals intact
C22_Witness ==
    /\ pc = "matched"
    /\ MatchedOn = << HdrRollNo, HdrHallTicketNo >>
    /\ matched.keywords = HallTicketKeywords
    /\ matched.header = HdrHallTicketNo

(***************************************************************************)
(* C23  Whenever at least one of the four canonical fields fails to        *)
(* resolve against a file's header row, the reader (Delimited-Text or      *)
(* Tabular-Text) rejects the whole file, contributing no student from it,  *)
(* with the error of the first unresolved field in the order name,         *)
(* hallTicketNumber, branch, contactNumber.  A reader resolves the header  *)
(* row of a file it could take a header row from: a Tabular-Text file of   *)
(* at least two non-blank lines, a Delimited-Text file parsed without      *)
(* error.                                                                  *)
(***************************************************************************)
ResolutionReached(f) ==
    \/ f.kind = "csv" /\ ~f.parseErrors
    \/ f.kind = "pdf" /\ f.headers # << >> /\ \E k \in DOMAIN f.rows : \E j \in DOMAIN f.rows[k] : f.rows[k][j] # ""

FieldErrors(kind) ==
    IF kind = "csv" THEN << ErrCsvName, ErrCsvTicket, ErrCsvBranch, ErrCsvContact >>
    ELSE << ErrPdfName, ErrPdfTicket, ErrPdfBranch, ErrPdfContact >>

FieldKeywords == << NameKeywords, HallTicketKeywords, BranchKeywords, ContactKeywords >>

C23_FirstUnresolvedFieldRejectsFile ==
    (pc = "parsed" /\ ResolutionReached(files[1])) =>
        LET normHeaders == [j \in DOMAIN MatchedOn |-> normalizeHeader(MatchedOn[j])]
            Resolves(n) == \E k \in DOMAIN FieldKeywords[n] : \E j \in DOMAIN normHeaders :
                               Includes(normHeaders[j], normalizeHeader(FieldKeywords[n][k]))
            unresolved  == { n \in DOMAIN FieldKeywords : ~Resolves(n) }
            first       == CHOOSE n \in unresolved : \A m \in unresolved : n <= m
        IN  unresolved # {} =>
                /\ ~outcome.ok
                /\ outcome.students = << >>
                /\ outcome.error = FieldErrors(files[1].kind)[first]

\* a table whose header row has a name and a phone column only: the hall-ticket
\* error, not the branch error
C23_Witness ==
    /\ pc = "parsed"
    /\ files[1].kind = "pdf"
    /\ files[1].headers = << HdrPaddedName, HdrPhone >>
    /\ files[1].rows # << >>
    /\ outcome.error = ErrPdfTicket
    /\ outcome.students = << >>

(***************************************************************************)
(* C24  Every student in allStudents, in the pool and in seatingPlan has a *)
(* non-empty name and a non-empty hallTicketNumber: both readers drop a    *)
(* row when either is empty.  As claimed, a row with an empty branch or    *)
(* contactNumber is kept by both readers (C24_RowWithNameAndTicketIsKept). *)
(* As the readers behave: the Delimited-Text reader keeps such a row, and  *)
(* the student is grouped under the empty-string branch; the Tabular-Text  *)
(* reader splits a line on runs of whitespace, so a line with a blank cell *)
(* has fewer parts than the header has columns and is discarded whole.     *)
(***************************************************************************)
Named(students) ==
    \A k \in DOMAIN students : students[k].name # "" /\ students[k].hallTicketNumber # ""

AllNamed == Named(allStudents) /\ Named(studentPool) /\ Named(Seated(seatingPlan))

\* a step that reads a file of the canonical header row with the reader of its kind
ReadsCanonical ==
    /\ pc = "read"
    /\ fileIdx <= Len(files)
    /\ files[fileIdx].headers = CanonicalHeaders
    /\ files[fileIdx].tag = files[fileIdx].kind
    /\ ~files[fileIdx].parseErrors

WithNameAndTicket(rows) ==
    SelectSeq([k \in DOMAIN rows |-> RowStudent(rows[k])],
              LAMBDA st : st.name # "" /\ st.hallTicketNumber # "")

WithoutBlankCell(rows) ==
    SelectSeq(rows, LAMBDA row : \A j \in DOMAIN CanonicalHeaders : CellAt(row, j) # "")

C24_RowWithNameAndTicketIsKept ==
    [][ ReadsCanonical
            => allStudents' = allStudents \o WithNameAndTicket(files[fileIdx].rows) ]_vars

C24_NamedAndTicketedOnly ==
    /\ []AllNamed
    /\ [][ ReadsCanonical
              => LET f == files[fileIdx]
                 IN  allStudents' = allStudents \o
                        (IF f.kind = "pdf" THEN WithNameAndTicket(WithoutBlankCell(f.rows))
                         ELSE WithNameAndTicket(f.rows)) ]_vars

\* a delimited file with a row without a name and a row without a branch: the
\* plan seats the student of the second row, under the branch ""
C24_Witness ==
    /\ Succeeded
    /\ \E k \in DOMAIN files :
            /\ files[k].kind = "csv"
            /\ \E r \in DOMAIN files[k].rows : RowStudent(files[k].rows[r]).name = ""
            /\ \E r \in DOMAIN files[k].rows :
                    /\ RowStudent(files[k].rows[r]).name # ""
                    /\ RowStudent(files[k].rows[r]).branch = ""
    /\ \E k \in DOMAIN seatingPlan : seatingPlan[k].branch = ""
    /\ AllNamed

(***************************************************************************)
(* C25  Conservation of students during allocation: after every bench step *)
(* the students still in the pool together with the students already in    *)
(* seatingPlan are, as a multiset, the merged roster; the second student   *)
(* chosen for a two-seat bench is never removed from the pool without      *)
(* being seated, for every layout with studentsPerBench in {1,2}.          *)
(***************************************************************************)
CountIn(students, st) == Cardinality({ k \in DOMAIN students : students[k] = st })

Conserved ==
    /\ Range(studentPool) \cup { StudentOf(a) : a \in Range(seatingPlan) } \subseteq Range(allStudents)
    /\ \A st \in Range(allStudents) :
           CountIn(studentPool, st)
               + Cardinality({ k \in DOMAIN seatingPlan : StudentOf(seatingPlan[k]) = st })
               = CountIn(allStudents, st)

C25_StudentsConserved == [](AllocatorRuns => Conserved)

\* a two-seat bench has just been filled, students are left in the pool and the
\* cursor stands at the ceiling
C25_Witness ==
    /\ pc = "bench"
    /\ CurrentRoom.studentsPerBench = 2
    /\ studentIndex = totalCapacity
    /\ studentPool # << >>
    /\ IsRight(seatingPlan[Len(seatingPlan)])
    /\ Len(seatingPlan) + Len(studentPool) = Len(allStudents)

(***************************************************************************)
(* C26  Rooms are filled strictly in traversal order: in the final plan a  *)
(* room holds at least one student only if every room earlier in block,    *)
(* floor, room input order holds exactly min(benches,45) x studentsPerBench*)
(* students, so the number of seated students is min(N, sum over rooms of  *)
(* min(benches,45) x studentsPerBench).  A room of the plan is told from   *)
(* the others by its labels, so the statement about the final plan is for  *)
(* layouts whose rooms have pairwise distinct labels; during allocation    *)
(* the rooms are told apart by their place.                                *)
(***************************************************************************)
EarlierRooms == SubSeq(AllRooms, 1, PlaceOf(blockIdx, floorIdx, roomIdx) - 1)

LabelsDistinct ==
    \A j, k \in DOMAIN AllRooms : LabelOf(AllRooms[j]) = LabelOf(AllRooms[k]) => j = k

FilledInTraversalOrder ==
    /\ (pc = "bench" /\ i > 0) => Len(seatingPlan) = SumEffective(EarlierRooms) + i
    /\ Succeeded => Len(result.seatingPlan) = Min(Len(allStudents), EffectiveTotal)
    /\ (Succeeded /\ LabelsDistinct) =>
           \A k \in DOMAIN AllRooms :
               SeatedIn(result.seatingPlan, LabelOf(AllRooms[k])) > 0
                   => \A q \in 1..(k-1) :
                          SeatedIn(result.seatingPlan, LabelOf(AllRooms[q]))
                              = EffectiveCapacity(AllRooms[q].room)

C26_RoomsFilledInTraversalOrder == []FilledInTraversalOrder

\* the first of two rooms is full and the second holds one student on a bench of two
C26_Witness ==
    /\ Succeeded
    /\ LabelsDistinct
    /\ Len(AllRooms) = 2
    /\ EffectiveCapacity(AllRooms[2].room) = 2
    /\ SeatedIn(result.seatingPlan, LabelOf(AllRooms[1])) = EffectiveCapacity(AllRooms[1].room)
    /\ SeatedIn(result.seatingPlan, LabelOf(AllRooms[2])) = 1
    /\ Len(result.seatingPlan) = Len(allStudents)

(***************************************************************************)
(* C27  Bench labelling is well formed in every room: a single-seat room   *)
(* uses the plain integers 1..k and a two-seat room uses "<n>L"/"<n>R"     *)
(* with n ranging over 1..k, with no gap and k <= min(benches,45); every   *)
(* "<n>R" in a room has a matching "<n>L" in the same room; and in the     *)
(* whole plan at most one two-seat bench has its L seat filled and its R   *)
(* seat empty, namely the last bench filled.  The seats of a room are the  *)
(* assignments made while the allocator stands in it, in that order; in    *)
(* the returned plan they are the assignments with the room's labels, when *)
(* the layout's rooms have pairwise distinct labels.  A room is looked at  *)
(* when its loop has ended, the whole plan when the traversal has ended.   *)
(***************************************************************************)
\* the label of the j-th seat filled in a room
SeatLabel(studentsPerBench, j) ==
    IF studentsPerBench = 1 THEN ToString(j)
    ELSE ToString((j + 1) \div 2) \o (IF j % 2 = 1 THEN "L" ELSE "R")

BenchesUsed(studentsPerBench, seats) ==
    IF studentsPerBench = 1 THEN seats ELSE (seats + 1) \div 2

IsLeft(a) == \E n \in 1..(MaxBenchesPerRoom + Extra) : a.benchNumber = ToString(n) \o "L"

BenchOf(a) ==
    CHOOSE n \in 1..(MaxBenchesPerRoom + Extra) :
        a.benchNumber \in { ToString(n) \o "L", ToString(n) \o "R" }

SameBench(a, b) == RoomLabel(a) = RoomLabel(b) /\ BenchOf(a) = BenchOf(b)

LabelsWellFormed ==
    /\ (pc = "bench" /\ ~Continues /\ i > 0) =>
           /\ \A j \in 1..i :
                  LET a == seatingPlan[Len(seatingPlan) - i + j]
                  IN  /\ a.benchNumber = SeatLabel(CurrentRoom.studentsPerBench, j)
                      /\ RoomLabel(a) = << layout.blocks[blockIdx].name,
                                           ToString(Floors(blockIdx)[floorIdx].number),
                                           CurrentRoom.number >>
           /\ BenchesUsed(CurrentRoom.studentsPerBench, i) <= Min(CurrentRoom.benches, MaxBenchesPerRoom)
    /\ pc = "sort" =>
           \A j \in DOMAIN seatingPlan :
               /\ (IsLeft(seatingPlan[j]) /\ j < Len(seatingPlan))
                      => IsRight(seatingPlan[j + 1]) /\ SameBench(seatingPlan[j], seatingPlan[j + 1])
               /\ IsRight(seatingPlan[j])
                      => /\ j > 1
                         /\ IsLeft(seatingPlan[j - 1])
                         /\ SameBench(seatingPlan[j - 1], seatingPlan[j])
    /\ (Succeeded /\ LabelsDistinct) =>
           \A k \in DOMAIN AllRooms :
               LET seats == { a \in Range(result.seatingPlan) : RoomLabel(a) = LabelOf(AllRooms[k]) }
                   count == SeatedIn(result.seatingPlan, LabelOf(AllRooms[k]))
               IN  { a.benchNumber : a \in seats }
                       = { SeatLabel(AllRooms[k].room.studentsPerBench, j) : j \in 1..count }

C27_BenchLabelsWellFormed == []LabelsWellFormed

\* three students in a room of two two-seat benches: 1L, 1R and 2L
C27_Witness ==
    /\ Succeeded
    /\ LabelsDistinct
    /\ Len(result.seatingPlan) = 3
    /\ { a.benchNumber : a \in Range(result.seatingPlan) } = { "1L", "1R", "2L" }

(***************************************************************************)
(* C28  For every header row accepted by a reader, the four canonical      *)
(* fields name, hallTicketNumber, branch and contactNumber resolve to four *)
(* pairwise distinct columns, so no single column of the file is projected *)
(* into two different Student fields.                                      *)
(***************************************************************************)
ResolvedColumns ==
    LET res == outcome.resolved
    IN  << IndexOf(MatchedOn, res.nameHeader), IndexOf(MatchedOn, res.hallTicketHeader),
           IndexOf(MatchedOn, res.branchHeader), IndexOf(MatchedOn, res.contactHeader) >>

C28_ResolvedColumnsDistinct ==
    (pc = "parsed" /\ outcome.ok) =>
        /\ \A m, n \in DOMAIN ResolvedColumns : ResolvedColumns[m] = ResolvedColumns[n] => m = n
        /\ \A k \in DOMAIN outcome.students : outcome.students[k].name # outcome.students[k].branch

(***************************************************************************)
(* C29  validateFaculty authorizes a call only if the facultyId equals a   *)
(* stored faculty_id ignoring letter case, and a call that supplies a      *)
(* secureKey value different from the stored secure_key is never           *)
(* authorized (it returns isAuthorized false with "Secure key mismatch."); *)
(* an unknown facultyId returns isAuthorized false with "Faculty ID not    *)
(* found." whatever key is supplied.                                       *)
(***************************************************************************)
KnownId ==
    \E k \in DOMAIN authFile.data.authorized_faculty :
        ToLowerCase(authFile.data.authorized_faculty[k].faculty_id) = ToLowerCase(verdict.input.facultyId)

SuppliesDifferentKey ==
    /\ "secureKey" \in DOMAIN verdict.input
    /\ verdict.input.secureKey # authFile.data.secure_key

C29_ValidateFaculty ==
    pc = "validated" =>
        /\ verdict.result.isValid => KnownId
        /\ SuppliesDifferentKey => ~verdict.result.isValid
        /\ (SuppliesDifferentKey /\ KnownId)
               => verdict.result = [ isValid |-> FALSE, error |-> "Secure key mismatch." ]
        /\ ~KnownId => verdict.result = [ isValid |-> FALSE, error |-> "Faculty ID not found." ]

(***************************************************************************)
(* C30  Starting from a stored faculty list whose faculty_id values are    *)
(* pairwise distinct ignoring letter case, after any sequence of           *)
(* addFacultyAction, deleteFacultyAction and updateSecureKeyAction         *)
(* invocations, including invocations that run concurrently so that their  *)
(* asynchronous read and write steps interleave, the stored list never     *)
(* contains two entries whose faculty_id are equal ignoring letter case.   *)
(***************************************************************************)
DistinctIgnoringCase(list) ==
    \A j, k \in DOMAIN list :
        ToLowerCase(list[j].faculty_id) = ToLowerCase(list[k].faculty_id) => j = k

C30_StoredIdsDistinctIgnoringCase ==
    (pc = "faculty" /\ authFile.exists) => DistinctIgnoringCase(authFile.data.authorized_faculty)

\* two invocations added ids that differ in letter case only; both read the file
\* before either wrote, both returned success, and the file holds the entry of
\* the one that wrote last
C30_Witness ==
    /\ pc = "faculty"
    /\ Len(calls) = 2
    /\ \A c \in DOMAIN calls : calls[c].op = "add" /\ calls[c].result = Success
    /\ \E k \in DOMAIN calls[1].authData.authorized_faculty :
           calls[1].authData.authorized_faculty[k].faculty_id = IdUnknown
    /\ \E k \in DOMAIN calls[2].authData.authorized_faculty :
           calls[2].authData.authorized_faculty[k].faculty_id = ToLowerCase(IdUnknown)
    /\ authFile.exists
    /\ authFile.data \in { calls[1].authData, calls[2].authData }
    /\ Len(authFile.data.authorized_faculty) > 1

====
